---- MODULE Spec2Model ----
(***************************************************************************)
(* Verification model of the eBL photo stitcher.                           *)
(*                                                                         *)
(* Part W: the batch workflow (lib/gui_workflow_runner.py and              *)
(*         lib/workflow/services/executor.py) down to                      *)
(*         lib/stitch_images.process_tablet_subfolder and                  *)
(*         lib/stitch_output.save_stitched_output.                         *)
(* Part L: ViewResizer and LayoutCalculator (image_utils.py,               *)
(*         lib/stitch_layout_manager.py).                                  *)
(* Part R: the ruler scale estimate (lib/ruler_detector.py).               *)
(* Part B: SequenceBlender, the fold of a sequence slot                    *)
(*         (lib/stitch_images.py).                                         *)
(* Part P: pasting a raster onto a canvas (image_utils.py).                *)
(* Part C: MarginCropper (lib/stitch_enhancement_utils.py).                *)
(* Part S: the choice of the object contour (lib/object_extractor.py).     *)
(* Part G: the progress and finished callbacks of the three runners.       *)
(* Part O: saving the composite and embedding its metadata                 *)
(*         (lib/stitch_output.py, stitch_images.py).                       *)
(* Part N: the refactored LayoutCalculator                                 *)
(*         (lib/stitching/services/layout_manager.py).                     *)
(* Part U: the undo history of the complex-layout dialog                   *)
(*         (lib/complex_layout_*.py).                                      *)
(***************************************************************************)
EXTENDS Integers, Sequences, FiniteSets, TLC

(***************************************************************************)
(* Bounds of the model (not program constants).                            *)
(***************************************************************************)
MaxFolders == 2
MaxOtherViews == 2
MaxSeqLen == 2
MaxRuns == 3
MaxBlendLen == 3
MaxSide == 3
MaxOffset == 3
MaxContours == 2
MaxBatch == 114
MaxActions == 3

(***************************************************************************)
(* Part W - state of one workflow run.                                     *)
(***************************************************************************)
VARIABLES
    runner,              \* "gui": lib/gui_workflow_runner.py, "executor": WorkflowExecutor
    app_instance,        \* TRUE when the caller passed an app_instance (gui runner only)
    processing_running,  \* app_instance.processing_running, written by the front-end
    wpc,                 \* position of the worker inside the run
    num_folders,         \* len(processed_subfolders)
    idx,                 \* 1-based index of the subfolder the loop is at
    views_left,          \* other views still to extract in the current subfolder
    stitch_ret,          \* return value of process_tablet_subfolder: <<tiff, jpg>> booleans
    total_ok,
    total_err,
    finished_calls,      \* number of finished_callback() invocations
    stopped_by_user,     \* the loop left through the "Processing stopped by user" branch
    attempted,           \* subfolder indices whose processing was started, in order
    cancelled_at,        \* where the worker stood when the flag was cleared, or "none"
    log                  \* per subfolder: what each pipeline step did

wfVars == <<runner, app_instance, processing_running, wpc, num_folders, idx,
            views_left, stitch_ret, total_ok, total_err, finished_calls,
            stopped_by_user, attempted, cancelled_at, log>>

(***************************************************************************)
(* Part L - state of one run of the resize and layout stages of            *)
(* lib/stitch_images.process_tablet_subfolder (steps 2 and 3).             *)
(***************************************************************************)
VARIABLES
    lpc,             \* "idle", "loaded", "resized", "planned", "failed", "composed",
                     \* "compose_raised"
    loaded_images,   \* view key -> slot, as load_images_for_stitching_process returned it
    custom_layout,   \* "none", or what the caller's custom layout says about obverse
    resized_images,  \* output of resize_tablet_views_for_layout
    plan,            \* output of calculate_stitching_layout
    segments         \* create_stitched_canvas: the segment blended for each sequence slot

layoutVars == <<lpc, loaded_images, custom_layout, resized_images, plan, segments>>

(***************************************************************************)
(* Part R - state of one call of estimate_pixels_per_centimeter_from_ruler *)
(***************************************************************************)
VARIABLES
    rpc,             \* position inside the call: "idle", "scan", "done"
    ruler_position,  \* the ruler_position argument
    image_dim,       \* image height (top, bottom) or width (left, right) in pixels
    roi,             \* the gray region of interest as its lines along the scan axis
    scan_i,          \* loop variable i of the scanline loop
    candidates,      \* candidate_mark_widths_list_px, each with where it came from
    estimate         \* outcome of the call

rulerVars == <<rpc, ruler_position, image_dim, roi, scan_i, candidates, estimate>>

(***************************************************************************)
(* Part B - state of the loop of create_stitched_canvas over one sequence. *)
(***************************************************************************)
VARIABLES
    fpc,             \* "idle", "fold", "done", "raised"
    fold_key,        \* view_key of the slot
    fold_images,     \* image_data: the rasters of the sequence as listed
    fold_overlap,    \* blend_overlap_px
    fold_i,          \* 1-based position of the next element of the loop
    fold_segment,    \* current_segment
    fold_calls       \* the blend calls made so far: operands and result

blendVars == <<fpc, fold_key, fold_images, fold_overlap, fold_i, fold_segment,
               fold_calls>>

(***************************************************************************)
(* Part P - state of one call of paste_image_onto_canvas.                  *)
(***************************************************************************)
VARIABLES
    ppc,             \* "idle", "pasted"
    canvas_before,   \* canvas_array when the call was made
    pasted_image,    \* image_to_paste
    paste_at,        \* <<top_left_x, top_left_y>>
    canvas_after     \* canvas_array after the call

pasteVars == <<ppc, canvas_before, pasted_image, paste_at, canvas_after>>

(***************************************************************************)
(* Part C - state of two successive calls of                               *)
(* crop_canvas_to_content_with_margin.                                     *)
(***************************************************************************)
VARIABLES
    cpc,             \* "idle", "cropped", "recropped"
    crop_input,      \* image_array_to_crop of the first call
    crop_bg,         \* background_color_bgr_tuple
    crop_margin,     \* margin_px_around
    crop_once,       \* result of the first call
    crop_twice       \* result of the call on that result

cropVars == <<cpc, crop_input, crop_bg, crop_margin, crop_once, crop_twice>>

(***************************************************************************)
(* Part S - state of one call of select_contour_closest_to_image_center.   *)
(***************************************************************************)
VARIABLES
    spc,             \* "idle", "selected"
    sel_shape,       \* <<img_height, img_width>>
    sel_contours,    \* contours_found, in the order cv2.findContours gave them
    sel_fraction,    \* min_contour_area_as_image_fraction as <<numerator, denominator>>
    best_contour     \* position in contours_found of the contour returned, 0 for None

selectVars == <<spc, sel_shape, sel_contours, sel_fraction, best_contour>>

(***************************************************************************)
(* Part G - the callbacks of one workflow run as the front-end sees them.  *)
(***************************************************************************)
VARIABLES
    gpc,             \* position of the worker: "idle", "organize", "loop", "layout",
                     \* "find", "steps", "views", "view", "stitch", "done"
    g_runner,        \* "gui": lib/gui_workflow_runner.py, "old_gui": gui_workflow_runner.py,
                     \* "executor": WorkflowExecutor.execute
    g_app_instance,  \* the caller passed an app_instance (gui only)
    g_running,       \* app_instance.processing_running
    g_num_folders,   \* len(processed_subfolders)
    g_i,             \* loop variable i of the loop over the subfolders
    g_step,          \* number of sub-steps of the current subfolder already reported
    g_acc,           \* accumulated_sub_progress
    g_views,         \* num_other_views
    g_view,          \* other views already extracted
    g_seen,          \* whether some subfolder ended well / ended with an error
    g_stopped,       \* the run left through the "stopped by user" branch
    callbacks        \* what the callbacks have received so far

callbackVars == <<gpc, g_runner, g_app_instance, g_running, g_num_folders, g_i, g_step,
                  g_acc, g_views, g_view, g_seen, g_stopped, callbacks>>

(***************************************************************************)
(* Part O - state of the save of one composite and of its metadata.        *)
(***************************************************************************)
VARIABLES
    opc,             \* "idle", "tiff", "jpg", "meta_tiff", "meta_jpg", "returned", "raised"
    out_impl,        \* "stitch_output": lib/stitch_output.save_stitched_output,
                     \* "stitch_images": the end of stitch_images.process_tablet_subfolder
    out_log          \* the calls that write a file or its metadata, in order

outputVars == <<opc, out_impl, out_log>>

(***************************************************************************)
(* Part N - state of one comparison of the original layout function with   *)
(* the refactored one (stitching/test_layout_manager.py).                  *)
(***************************************************************************)
VARIABLES
    tpc,             \* "idle", "ready", "old_done", "done"
    t_images,        \* the dictionary of resized views the comparison starts from
    t_config,        \* gap between views and padding above the ruler
    old_arg,         \* the dictionary object handed to the original function
    new_arg,         \* the dictionary object handed to the refactored function
    old_result,      \* what stitch_layout_manager.calculate_stitching_layout returned
    new_result       \* what stitch_layout_manager_new.calculate_stitching_layout returned

refactorVars == <<tpc, t_images, t_config, old_arg, new_arg, old_result, new_result>>

(***************************************************************************)
(* Part U - state of the complex-layout dialog (ComplexLayoutDialog).      *)
(***************************************************************************)
VARIABLES
    result_layout,        \* slot -> None / item for a main slot, list of items for a sequence
    selected_image_path,  \* the selected thumbnail, or "" for None
    action_history,       \* the recorded actions, oldest first
    sequence_dialog,      \* slot whose sequence dialog is open, or ""
    label_packed,         \* path -> the container of the thumbnail label is packed
    frame_packed,         \* path -> the outer frame of the thumbnail is packed
    layouts_before,       \* for each recorded action, result_layout before it
    undone                \* the last step, when it was an undo: the action and the layout before it

undoVars == <<result_layout, selected_image_path, action_history, sequence_dialog,
              label_packed, frame_packed, layouts_before, undone>>

vars == <<wfVars, layoutVars, rulerVars, blendVars, pasteVars, cropVars, selectVars, callbackVars, outputVars, refactorVars, undoVars>>

\* what the actions of one part leave alone
notWf == <<layoutVars, rulerVars, blendVars, pasteVars, cropVars, selectVars, callbackVars, outputVars, refactorVars, undoVars>>
notLayout == <<wfVars, rulerVars, blendVars, pasteVars, cropVars, selectVars, callbackVars, outputVars, refactorVars, undoVars>>
notRuler == <<wfVars, layoutVars, blendVars, pasteVars, cropVars, selectVars, callbackVars, outputVars, refactorVars, undoVars>>
notBlend == <<wfVars, layoutVars, rulerVars, pasteVars, cropVars, selectVars, callbackVars, outputVars, refactorVars, undoVars>>
notPaste == <<wfVars, layoutVars, rulerVars, blendVars, cropVars, selectVars, callbackVars, outputVars, refactorVars, undoVars>>
notCrop == <<wfVars, layoutVars, rulerVars, blendVars, pasteVars, selectVars, callbackVars, outputVars, refactorVars, undoVars>>
notSelect == <<wfVars, layoutVars, rulerVars, blendVars, pasteVars, cropVars, callbackVars, outputVars, refactorVars, undoVars>>
notCallbacks == <<wfVars, layoutVars, rulerVars, blendVars, pasteVars, cropVars, selectVars, outputVars, refactorVars, undoVars>>
notOutput == <<wfVars, layoutVars, rulerVars, blendVars, pasteVars, cropVars, selectVars, callbackVars, refactorVars, undoVars>>
notRefactor == <<wfVars, layoutVars, rulerVars, blendVars, pasteVars, cropVars, selectVars, callbackVars, outputVars, undoVars>>
notUndo == <<wfVars, layoutVars, rulerVars, blendVars, pasteVars, cropVars, selectVars, callbackVars, outputVars, refactorVars>>

(***************************************************************************)
(* Part L - rasters, view sets, ViewResizer and LayoutCalculator.          *)
(* A raster is modelled by its shape (h, w); a slot of the view dictionary *)
(* is None, one array, or a list of arrays.                                *)
(***************************************************************************)
STITCH_VIEW_GAP_PX == 100
STITCH_RULER_PADDING_PX == 100
CANVAS_MARGIN_PX == 100
LAYOUT_BLEND_OVERLAP_PX == 0

\* key order of the dictionary load_images_for_stitching_process builds
KeyOrder == <<"obverse", "reverse", "bottom", "top", "right", "left", "ruler">>
Keys == {KeyOrder[p] : p \in 1..Len(KeyOrder)}

NoneSlot == [kind |-> "none", imgs |-> <<>>]
Img(h, w) == [kind |-> "img", imgs |-> <<[h |-> h, w |-> w]>>]
ImgList(s) == [kind |-> "seq", imgs |-> s]

\* dict.get(key) is not None
Present(d, key) == key \in DOMAIN d /\ d[key].kind # "none"

\* isinstance(x, np.ndarray) and x.size > 0
ValidArray(r) == r.h > 0 /\ r.w > 0

Shape(r, axis) == IF axis = 0 THEN r.h ELSE r.w

Abs(a) == IF a >= 0 THEN a ELSE -a

\* Python's floor division by two
FloorHalf(a) == IF a >= 0 THEN a \div 2 ELSE -((1 - a) \div 2)

\* Python 3 round() of the non-negative rational n/d: ties go to the even integer
RoundHalfEven(n, d) ==
    LET q == n \div d
        r == n % d
    IN  IF 2 * r < d THEN q
        ELSE IF 2 * r > d THEN q + 1
        ELSE IF q % 2 = 0 THEN q ELSE q + 1

\* length of a list along axis_index after the hypothetical blend
RECURSIVE ListDimension(_, _, _, _)
ListDimension(imgs, axis_index, blend_overlap_px, i) ==
    IF i > Len(imgs) THEN 0
    ELSE (IF ValidArray(imgs[i])
          THEN Shape(imgs[i], axis_index) - (IF i > 1 THEN blend_overlap_px ELSE 0)
          ELSE 0)
         + ListDimension(imgs, axis_index, blend_overlap_px, i + 1)

get_image_dimension(image_or_list, axis_index, blend_overlap_px) ==
    IF image_or_list.kind = "img" /\ ValidArray(image_or_list.imgs[1])
    THEN Shape(image_or_list.imgs[1], axis_index)
    ELSE IF image_or_list.kind = "seq" /\ Len(image_or_list.imgs) > 0
    THEN ListDimension(image_or_list.imgs, axis_index, blend_overlap_px, 1)
    ELSE 0

C9_Mut_EffectivelyOne(target_dimension_px, dim) ==
    LET diff == IF target_dimension_px >= dim THEN target_dimension_px - dim
                ELSE dim - target_dimension_px
    IN  100 * diff < dim

\* abs(scale_factor - 1.0) < 1e-3 for scale_factor = target / dim
EffectivelyOne(target_dimension_px, dim) ==
    LET diff == IF target_dimension_px >= dim THEN target_dimension_px - dim
                ELSE dim - target_dimension_px
    IN  1000 * diff < dim

\* resize_image_maintain_aspect: the result as a list of zero (None) or one array
resize_image_maintain_aspect(image_to_resize, target_dimension_px, match_axis) ==
    LET height == image_to_resize.h
        width == image_to_resize.w
        dim == Shape(image_to_resize, match_axis)
        new_width == RoundHalfEven(width * target_dimension_px, dim)
        new_height == RoundHalfEven(height * target_dimension_px, dim)
    IN  IF height = 0 \/ width = 0 THEN <<>>
        ELSE IF dim = target_dimension_px \/ EffectivelyOne(target_dimension_px, dim)
        THEN <<image_to_resize>>
        ELSE IF new_width <= 0 \/ new_height <= 0 THEN <<>>
        ELSE <<[h |-> new_height, w |-> new_width]>>

\* the entry of resize_config whose key is a substring of view_key
ResizeRule(view_key) ==
    CASE view_key = "left" -> 0
      [] view_key = "right" -> 0
      [] view_key = "top" -> 1
      [] view_key = "bottom" -> 1
      [] view_key = "reverse" -> 1
      [] OTHER -> -1

RECURSIVE ResizeList(_, _, _, _)
ResizeList(imgs, target, axis, i) ==
    IF i > Len(imgs) THEN <<>>
    ELSE (IF ValidArray(imgs[i])
          THEN resize_image_maintain_aspect(imgs[i], target, axis)
          ELSE <<>>)
         \o ResizeList(imgs, target, axis, i + 1)

RECURSIVE ValidOnly(_, _)
ValidOnly(imgs, i) ==
    IF i > Len(imgs) THEN <<>>
    ELSE (IF ValidArray(imgs[i]) THEN <<imgs[i]>> ELSE <<>>) \o ValidOnly(imgs, i + 1)

\* reference dimensions taken from the obverse slot
ObverseReference(obverse_image_data) ==
    IF obverse_image_data.kind = "img" /\ ValidArray(obverse_image_data.imgs[1])
    THEN obverse_image_data.imgs[1]
    ELSE IF obverse_image_data.kind = "seq" /\ Len(obverse_image_data.imgs) > 0
    THEN obverse_image_data.imgs[1]
    ELSE [h |-> 0, w |-> 0]

resize_tablet_views_for_layout(loaded_images_dictionary) ==
    LET ref == ObverseReference(loaded_images_dictionary["obverse"])
        obv_h == ref.h
        obv_w == ref.w
        PassThrough(item) ==
            IF item.kind = "seq"
            THEN (IF ValidOnly(item.imgs, 1) # <<>>
                  THEN ImgList(ValidOnly(item.imgs, 1)) ELSE NoneSlot)
            ELSE IF item.kind = "img" /\ ValidArray(item.imgs[1]) THEN item
            ELSE NoneSlot
        Resized(view_key, item) ==
            LET axis == ResizeRule(view_key)
                match_dim == IF axis = 0 THEN obv_h ELSE obv_w
            IN  IF view_key = "obverse" THEN item
                ELSE IF axis = -1 THEN item
                ELSE IF item.kind = "img" /\ ValidArray(item.imgs[1])
                THEN (LET r == resize_image_maintain_aspect(item.imgs[1], match_dim, axis)
                      IN  IF r = <<>> THEN NoneSlot
                          ELSE [kind |-> "img", imgs |-> r])
                ELSE IF item.kind = "seq"
                THEN (LET rs == ResizeList(item.imgs, match_dim, axis, 1)
                      IN  IF rs = <<>> THEN NoneSlot ELSE ImgList(rs))
                ELSE NoneSlot
    IN  IF obv_h = 0 \/ obv_w = 0
        THEN [k \in DOMAIN loaded_images_dictionary |->
                 PassThrough(loaded_images_dictionary[k])]
        ELSE [k \in DOMAIN loaded_images_dictionary |->
                 Resized(k, loaded_images_dictionary[k])]

\* a custom layout is None or a dictionary from view keys to the files assigned
NoCustomLayout == [is_none |-> TRUE, names |-> {}]
CustomLayout(names) == [is_none |-> FALSE, names |-> names]
\* truth value of "if custom_layout:"
Truthy(layout) == ~layout.is_none /\ layout.names # {}

get_sequence_primary_axis(view_key_for_seq) ==
    IF view_key_for_seq \in {"left", "right"} THEN 0 ELSE 1

ViewDimension(key, data, axis, blend_overlap_px) ==
    get_image_dimension(data, axis,
        IF data.kind = "seq" /\ get_sequence_primary_axis(key) = axis
        THEN blend_overlap_px ELSE 0)

\* "for key, data in images_dict.items(): if data is not None: ... break"
RECURSIVE FirstPresentFrom(_, _)
FirstPresentFrom(images_dict, p) ==
    IF p > Len(KeyOrder) THEN ""
    ELSE IF Present(images_dict, KeyOrder[p]) THEN KeyOrder[p]
    ELSE FirstPresentFrom(images_dict, p + 1)

FallbackKey(images_dict, layout) ==
    IF Truthy(layout) THEN FirstPresentFrom(images_dict, 1) ELSE ""

MaxOf(S) == CHOOSE m \in S : \A x \in S : x <= m

RotatedKeys == {"left_rotated", "right_rotated"}
RotatedOf(k) == IF k = "left_rotated" THEN "left" ELSE "right"

LayoutError ==
    [ok |-> FALSE, canvas_w |-> 0, canvas_h |-> 0, ref_key |-> "",
     coords |-> [k \in {} |-> <<0, 0>>], images |-> [k \in {} |-> NoneSlot]]

\* obv_x_final
ObverseX(has_left, current_x_in_row1, canvas_w, obv_w) ==
    IF has_left THEN current_x_in_row1 ELSE FloorHalf(canvas_w - obv_w)

C13_Mut_StackBelow(y_curr, padding_px) == y_curr

\* "y_curr += view_gap_px" and "y_curr += ruler_padding_px": where the next
\* stacked view starts
StackBelow(y_curr, padding_px) == y_curr + padding_px

C10_Mut_CanvasWidth(potential_canvas_widths) == MaxOf(potential_canvas_widths) + 100

\* canvas_w = max(potential_canvas_widths) + 200
CanvasWidth(potential_canvas_widths) == MaxOf(potential_canvas_widths) + 2 * CANVAS_MARGIN_PX

calculate_stitching_layout(images_dict, view_gap_px, ruler_padding_px, layout, blend_overlap_px) ==
    LET has(k) == Present(images_dict, k)
        dim(k, axis) == ViewDimension(k, images_dict[k], axis, blend_overlap_px)
        obv0_h == dim("obverse", 0)
        obv0_w == dim("obverse", 1)
        fallback == obv0_h = 0 \/ obv0_w = 0
        ref_key == IF fallback THEN FallbackKey(images_dict, layout) ELSE "obverse"
        obv_h == IF ref_key = "" THEN obv0_h ELSE dim(ref_key, 0)
        obv_w == IF ref_key = "" THEN obv0_w ELSE dim(ref_key, 1)
        l_w == dim("left", 1)
        r_w == dim("right", 1)
        b_h == dim("bottom", 0)
        rev_h == dim("reverse", 0)
        t_h == dim("top", 0)
        l_h == dim("left", 0)
        r_h == dim("right", 0)
        rul_h == get_image_dimension(images_dict["ruler"], 0, 0)
        rul_w == get_image_dimension(images_dict["ruler"], 1, 0)
        active_in_row1 == Cardinality({k \in {"left", "obverse", "right"} : has(k)})
        row1_w == IF active_in_row1 = 0 THEN obv_w
                  ELSE (IF has("left") THEN l_w ELSE 0)
                       + (IF has("obverse") THEN obv_w ELSE 0)
                       + (IF has("right") THEN r_w ELSE 0)
                       + (active_in_row1 - 1) * view_gap_px
        bottom_w == dim("bottom", 1)
        reverse_w == dim("reverse", 1)
        top_w == dim("top", 1)
        rev_row_w == reverse_w
                     + (IF has("left") THEN l_w + view_gap_px ELSE 0)
                     + (IF has("right") THEN r_w + view_gap_px ELSE 0)
        potential_canvas_widths ==
            {row1_w, obv_w, rev_row_w}
            \cup (IF bottom_w > 0 THEN {bottom_w} ELSE {})
            \cup (IF top_w > 0 THEN {top_w} ELSE {})
            \cup (IF rul_w > 0 THEN {rul_w} ELSE {})
        canvas_w == CanvasWidth(potential_canvas_widths)
        y_row1 == CANVAS_MARGIN_PX
        start_x_row1 == IF row1_w > 0 THEN FloorHalf(canvas_w - row1_w)
                        ELSE FloorHalf(canvas_w - obv_w)
        x_after_left == IF has("left") THEN start_x_row1 + l_w + view_gap_px
                        ELSE start_x_row1
        obv_x_final == ObverseX(has("left"), x_after_left, canvas_w, obv_w)
        x_after_obverse == IF has("obverse") THEN obv_x_final + obv_w + view_gap_px
                           ELSE FloorHalf(canvas_w - 0)
        y_after_row1 == y_row1 + obv_h
        put_bottom == has("bottom") /\ b_h > 0
        y_bottom == StackBelow(y_after_row1, view_gap_px)
        y_after_bottom == IF put_bottom THEN y_bottom + b_h ELSE y_after_row1
        put_reverse == has("reverse") /\ rev_h > 0
        y_reverse == StackBelow(y_after_bottom, view_gap_px)
        rev_row_start_x == FloorHalf(canvas_w - rev_row_w)
        reverse_x_pos == IF has("left") THEN rev_row_start_x + l_w + view_gap_px
                         ELSE rev_row_start_x
        y_after_reverse == IF put_reverse THEN y_reverse + rev_h ELSE y_after_bottom
        put_top == has("top") /\ t_h > 0
        y_top == StackBelow(y_after_reverse, view_gap_px)
        y_after_top == IF put_top THEN y_top + t_h ELSE y_after_reverse
        put_ruler == has("ruler") /\ rul_h > 0
        y_ruler == StackBelow(y_after_top, ruler_padding_px)
        y_curr == IF put_ruler THEN y_ruler + rul_h ELSE y_after_top
        canvas_h == y_curr + CANVAS_MARGIN_PX
        position(k) ==
            CASE k = "left" -> <<start_x_row1, y_row1>>
              [] k = "obverse" -> <<obv_x_final, y_row1>>
              [] k = "right" -> <<x_after_obverse, y_row1>>
              [] k = "bottom" -> <<obv_x_final + FloorHalf(obv_w - bottom_w), y_bottom>>
              [] k = "left_rotated" -> <<rev_row_start_x, y_reverse + FloorHalf(rev_h - l_h)>>
              [] k = "reverse" -> <<reverse_x_pos, y_reverse>>
              [] k = "right_rotated" ->
                    <<reverse_x_pos + reverse_w + view_gap_px,
                      y_reverse + FloorHalf(rev_h - r_h)>>
              [] k = "top" -> <<obv_x_final + FloorHalf(obv_w - top_w), y_top>>
              [] k = "ruler" -> <<obv_x_final + FloorHalf(obv_w - rul_w), y_ruler>>
        placed ==
            {k \in {"left", "obverse", "right"} : has(k)}
            \cup (IF put_bottom THEN {"bottom"} ELSE {})
            \cup (IF put_reverse
                  THEN {"reverse"} \cup {k \in RotatedKeys : has(RotatedOf(k))}
                  ELSE {})
            \cup (IF put_top THEN {"top"} ELSE {})
            \cup (IF put_ruler THEN {"ruler"} ELSE {})
        rotated == {k \in RotatedKeys :
                       /\ has(RotatedOf(k))
                       /\ images_dict[RotatedOf(k)].kind = "img"
                       /\ ValidArray(images_dict[RotatedOf(k)].imgs[1])}
        modified_images_dict ==
            [k \in DOMAIN images_dict \cup rotated |->
                IF k \in rotated THEN images_dict[RotatedOf(k)] ELSE images_dict[k]]
    IN  IF obv_h = 0 \/ obv_w = 0 THEN LayoutError
        ELSE [ok |-> TRUE, canvas_w |-> canvas_w, canvas_h |-> canvas_h,
              ref_key |-> ref_key,
              coords |-> [k \in placed |-> position(k)],
              images |-> modified_images_dict]

(***************************************************************************)
(* SequenceBlender on shapes: what create_stitched_canvas makes of a slot  *)
(* that holds a list.  cv2.addWeighted is called with arrays as weights;   *)
(* whether the library accepts them is left open (weighted_ok).            *)
(***************************************************************************)
DEFAULT_BLEND_OVERLAP_PX == 50

RaisedShape == [status |-> "raised", h |-> 0, w |-> 0]
OkShape(h, w) == [status |-> "ok", h |-> h, w |-> w]

\* 'horizontal' unless the key contains "left" or "right"
BlendAxis(view_key) ==
    IF view_key \in {"left", "right", "left_rotated", "right_rotated"}
    THEN "vertical" ELSE "horizontal"

Min2(a, b) == IF a <= b THEN a ELSE b

\* shape of _blend_images_horizontally / _blend_images_vertically
BlendedShape(base, new, overlap_px, blend_axis, weighted_ok) ==
    LET along(r) == IF blend_axis = "horizontal" THEN r.w ELSE r.h
        across(r) == IF blend_axis = "horizontal" THEN r.h ELSE r.w
        Made(l, c) == IF blend_axis = "horizontal" THEN OkShape(c, l) ELSE OkShape(l, c)
        kept == IF along(base) > overlap_px THEN along(base) - overlap_px ELSE 0
    IN  IF overlap_px <= 0
        THEN (IF across(base) = across(new)
              THEN Made(along(base) + along(new), across(base)) ELSE RaisedShape)
        ELSE IF along(base) < overlap_px \/ along(new) < overlap_px
        THEN (IF across(base) = across(new)
              THEN Made(kept + along(new), across(base)) ELSE RaisedShape)
        ELSE IF weighted_ok
        THEN Made(along(base) + along(new) - overlap_px,
                  Min2(across(base), across(new)))
        ELSE RaisedShape

\* the loop over the sequence from element i on, current_segment being set
RECURSIVE FoldShapes(_, _, _, _, _, _)
FoldShapes(current_segment, image_data, i, blend_axis, overlap_px, weighted_ok) ==
    IF i > Len(image_data) \/ current_segment.status = "raised" THEN current_segment
    ELSE FoldShapes(BlendedShape(current_segment, image_data[i], overlap_px,
                                 blend_axis, weighted_ok),
                    image_data, i + 1, blend_axis, overlap_px, weighted_ok)

\* current_segment for the list held by view_key
SegmentShape(view_key, image_data, overlap_px, weighted_ok) ==
    FoldShapes(OkShape(image_data[1].h, image_data[1].w), image_data, 2,
               BlendAxis(view_key), overlap_px, weighted_ok)

\* the slots of the plan whose content is a list
SequenceSlots(p) ==
    {k \in DOMAIN p.coords : k \in DOMAIN p.images /\ p.images[k].kind = "seq"}

NoSegments == [k \in {} |-> RaisedShape]

\* all non-empty lists of at most n rasters drawn from S
ListsOf(S, n) == UNION {[1..m -> S] : m \in 1..n}

(***************************************************************************)
(* Part B - SequenceBlender on content.  A raster is its length across the *)
(* blend axis and its lines along it (columns for a horizontal blend, rows *)
(* for a vertical one); a line is the list of the source lines mixed into  *)
(* it, each named by the listing position of its element and its position *)
(* inside that element.                                                    *)
(***************************************************************************)
RaisedSegment == [status |-> "raised", across |-> 0, lines |-> <<>>]
Segment(across, lines) == [status |-> "ok", across |-> across, lines |-> lines]

\* element i of the list image_data as a raster with content
Content(imgs, i) ==
    Segment(imgs[i].across, [j \in 1..imgs[i].along |-> <<[elem |-> i, at |-> j]>>])

\* np.concatenate along the blend axis: the lengths across it must agree
Concatenated(base_lines, base_across, new) ==
    IF base_across = new.across
    THEN Segment(base_across, base_lines \o new.lines)
    ELSE RaisedSegment

\* _blend_images_horizontally / _blend_images_vertically for operands that
\* are not None
blend_images(base_image_segment, new_image_segment, overlap_px, weighted_ok) ==
    LET base_w == Len(base_image_segment.lines)
        new_w == Len(new_image_segment.lines)
        h == Min2(base_image_segment.across, new_image_segment.across)
        non_overlap_base == SubSeq(base_image_segment.lines, 1, base_w - overlap_px)
        blended_overlap ==
            [t \in 1..overlap_px |->
                base_image_segment.lines[base_w - overlap_px + t]
                \o new_image_segment.lines[t]]
        non_overlap_new == SubSeq(new_image_segment.lines, overlap_px + 1, new_w)
    IN  IF overlap_px <= 0
        THEN Concatenated(base_image_segment.lines, base_image_segment.across,
                          new_image_segment)
        ELSE IF base_w < overlap_px \/ new_w < overlap_px
        THEN Concatenated(
                 SubSeq(base_image_segment.lines, 1,
                        IF base_w > overlap_px THEN base_w - overlap_px ELSE 0),
                 base_image_segment.across, new_image_segment)
        ELSE IF ~weighted_ok THEN RaisedSegment
        ELSE Segment(h, non_overlap_base \o blended_overlap \o non_overlap_new)

C17_Mut_BlendOperands(current_segment, img_in_sequence) ==
    <<img_in_sequence, current_segment>>

\* the operands of the blend call inside the loop: (base, new)
BlendOperands(current_segment, img_in_sequence) ==
    <<current_segment, img_in_sequence>>

\* rasters the sequences of the model are made of, and overlap widths
BlendRasters ==
    {[name |-> "a", along |-> 3, across |-> 2], [name |-> "b", along |-> 1, across |-> 2],
     [name |-> "c", along |-> 2, across |-> 2], [name |-> "d", along |-> 2, across |-> 1]}
BlendOverlaps == {0, 2, DEFAULT_BLEND_OVERLAP_PX}
BlendKeys == {"top", "left"}

BlendIdle ==
    /\ fpc = "idle" /\ fold_key = "top" /\ fold_images = <<>> /\ fold_overlap = 0
    /\ fold_i = 0 /\ fold_segment = RaisedSegment /\ fold_calls = <<>>

\* create_stitched_canvas reaches a slot holding a list: the iteration i == 0
StartFold ==
    /\ fpc = "idle"
    /\ \E key \in BlendKeys, imgs \in ListsOf(BlendRasters, MaxBlendLen),
          overlap_px \in BlendOverlaps :
          /\ fold_key' = key
          /\ fold_images' = imgs
          /\ fold_overlap' = overlap_px
          /\ fold_segment' = Content(imgs, 1)
    /\ fold_i' = 2
    /\ fold_calls' = <<>>
    /\ fpc' = "fold"
    /\ UNCHANGED notBlend

\* one iteration i > 0 of the loop over the sequence
BlendNext ==
    /\ fpc = "fold"
    /\ fold_i <= Len(fold_images)
    /\ \E weighted_ok \in BOOLEAN :
          LET operands == BlendOperands(fold_segment, Content(fold_images, fold_i))
              out == blend_images(operands[1], operands[2], fold_overlap, weighted_ok)
          IN  /\ fold_calls' = Append(fold_calls,
                      [first |-> operands[1], second |-> operands[2], out |-> out])
              /\ IF out.status = "raised"
                 THEN /\ fpc' = "raised"
                      /\ UNCHANGED <<fold_segment, fold_i>>
                 ELSE /\ fpc' = "fold"
                      /\ fold_segment' = out
                      /\ fold_i' = fold_i + 1
    /\ UNCHANGED <<fold_key, fold_images, fold_overlap>>
    /\ UNCHANGED notBlend

\* the loop is over: current_segment is pasted and recorded
FinishFold ==
    /\ fpc = "fold"
    /\ fold_i > Len(fold_images)
    /\ fpc' = "done"
    /\ UNCHANGED <<fold_key, fold_images, fold_overlap, fold_i, fold_segment, fold_calls>>
    /\ UNCHANGED notBlend


(***************************************************************************)
(* Part P - rasters with pixels.  A raster has a number of channels (1: a  *)
(* two-dimensional gray array, 3: BGR, 4: BGRA), a shape and its pixels by *)
(* row and column (1-based); a pixel is [b, g, r, a], a = 255 where the    *)
(* raster has no alpha channel.                                            *)
(***************************************************************************)
Px(b, g, r, a) == [b |-> b, g |-> g, r |-> r, a |-> a]
Raster(channels, h, w, px) == [channels |-> channels, h |-> h, w |-> w, px |-> px]

Max2(a, b) == IF a >= b THEN a ELSE b

\* what cv2.resize leaves of a pixel: some value interpolated from the source
ResampledPixel == Px(-1, -1, -1, 255)

\* int(bgr * alpha + target * (1.0 - alpha)) for alpha = a / 255.0; for the
\* alpha values 0, 128 and 255 of this model the float expression truncates
\* to this integer
AlphaBlended(source, target, a) == (a * source + (255 - a) * target) \div 255

\* the pixel an image pixel leaves on a canvas pixel (lines 93-97)
Written(channels, source, target) ==
    IF channels = 4
    THEN Px(AlphaBlended(source.b, target.b, source.a),
            AlphaBlended(source.g, target.g, source.a),
            AlphaBlended(source.r, target.r, source.a), 255)
    ELSE Px(source.b, source.g, source.r, 255)

C20_Mut_SourceStart(top_left) == 0

\* first row / column of the source that falls on the canvas: max(0, -y1_canvas)
SourceStart(top_left) == Max2(0, -top_left)

\* paste_image_onto_canvas: the canvas array after the call
paste_image_onto_canvas(canvas_array, image_to_paste, top_left_x, top_left_y) ==
    LET img_h == image_to_paste.h
        img_w == image_to_paste.w
        canvas_h == canvas_array.h
        canvas_w == canvas_array.w
        y1_canvas == top_left_y
        y2_canvas == top_left_y + img_h
        x1_canvas == top_left_x
        x2_canvas == top_left_x + img_w
        roi_y1_c == Max2(0, y1_canvas)
        roi_y2_c == Min2(canvas_h, y2_canvas)
        roi_x1_c == Max2(0, x1_canvas)
        roi_x2_c == Min2(canvas_w, x2_canvas)
        src_y1 == SourceStart(y1_canvas)
        src_y2 == img_h - Max2(0, y2_canvas - canvas_h)
        src_x1 == SourceStart(x1_canvas)
        src_x2 == img_w - Max2(0, x2_canvas - canvas_w)
        same_shape == /\ roi_y2_c - roi_y1_c = src_y2 - src_y1
                      /\ roi_x2_c - roi_x1_c = src_x2 - src_x1
        \* img_cropped at row r, column c of the canvas (1-based)
        img_cropped(r, c) ==
            IF same_shape
            THEN image_to_paste.px[src_y1 + r - roi_y1_c][src_x1 + c - roi_x1_c]
            ELSE ResampledPixel
        in_roi(r, c) == /\ roi_y1_c < r /\ r <= roi_y2_c
                        /\ roi_x1_c < c /\ c <= roi_x2_c
    IN  IF img_h = 0 \/ img_w = 0 THEN canvas_array
        ELSE IF x1_canvas >= canvas_w \/ y1_canvas >= canvas_h
                \/ x2_canvas <= 0 \/ y2_canvas <= 0 THEN canvas_array
        ELSE IF roi_y1_c >= roi_y2_c \/ roi_x1_c >= roi_x2_c
                \/ src_y1 >= src_y2 \/ src_x1 >= src_x2 THEN canvas_array
        ELSE Raster(canvas_array.channels, canvas_h, canvas_w,
                 [r \in 1..canvas_h |-> [c \in 1..canvas_w |->
                     IF in_roi(r, c)
                     THEN Written(image_to_paste.channels, img_cropped(r, c),
                                  canvas_array.px[r][c])
                     ELSE canvas_array.px[r][c]]])

\* canvases and images of the model: every pixel of a canvas and of an image
\* has its own value, so that a pixel tells where it came from
NoRaster == Raster(3, 0, 0, <<>>)
CanvasOf(h, w) ==
    Raster(3, h, w, [r \in 1..h |-> [c \in 1..w |->
        Px(10 * r + c, 10 * r + c, 10 * r + c, 255)]])
ImageOf(channels, h, w, a) ==
    Raster(channels, h, w, [r \in 1..h |-> [c \in 1..w |->
        Px(100 + 10 * r + c, 100 + 10 * r + c,
           IF channels = 1 THEN 100 + 10 * r + c ELSE 200 + 10 * r + c, a)]])
PasteCanvases == {CanvasOf(2, 2), CanvasOf(2, 3), CanvasOf(3, 2)}
PasteImages ==
    {NoRaster}
    \cup {ImageOf(channels, h, w, 255) : channels \in {1, 3}, h \in 1..MaxSide, w \in 1..MaxSide}
    \cup {ImageOf(4, h, w, a) : h \in 1..MaxSide, w \in 1..MaxSide, a \in {0, 128, 255}}
PasteOffsets == (-MaxOffset)..MaxOffset

PasteIdle ==
    /\ ppc = "idle" /\ canvas_before = NoRaster /\ pasted_image = NoRaster
    /\ paste_at = <<0, 0>> /\ canvas_after = NoRaster

\* one call paste_image_onto_canvas(canvas, image, x, y)
PasteImage ==
    /\ ppc = "idle"
    /\ \E canvas_array \in PasteCanvases, image_to_paste \in PasteImages,
          top_left_x \in PasteOffsets, top_left_y \in PasteOffsets :
          /\ canvas_before' = canvas_array
          /\ pasted_image' = image_to_paste
          /\ paste_at' = <<top_left_x, top_left_y>>
          /\ canvas_after' = paste_image_onto_canvas(canvas_array, image_to_paste,
                                                     top_left_x, top_left_y)
    /\ ppc' = "pasted"
    /\ UNCHANGED notPaste

(***************************************************************************)
(* Part C - MarginCropper.                                                 *)
(***************************************************************************)
\* cv2.COLOR_BGR2GRAY: 0.114 B + 0.587 G + 0.299 R, rounded
Gray(p) == (114 * p.b + 587 * p.g + 299 * p.r + 500) \div 1000

\* np.min(background_color_bgr_tuple)
MinOfColor(bgr) == Min2(bgr.b, Min2(bgr.g, bgr.r))

\* np.full((h, w, 3), background_color_bgr_tuple)
Filled(h, w, bgr) ==
    Raster(3, h, w, [r \in 1..h |-> [c \in 1..w |-> Px(bgr.b, bgr.g, bgr.r, 255)]])

\* image[y : y + h, x : x + w] for 0-based x, y
Slice(image, x, y, w, h) ==
    Raster(image.channels, h, w,
        [r \in 1..h |-> [c \in 1..w |-> image.px[y + r][x + c]]])

MinOfSet(S) == CHOOSE m \in S : \A x \in S : m <= x

crop_canvas_to_content_with_margin(image_array_to_crop, background_color_bgr_tuple, margin_px_around) ==
    LET min_bg_intensity == MinOfColor(background_color_bgr_tuple)
        lower_intensity_bound == min_bg_intensity + 1
        upper_intensity_bound == 255
        cells == (1..image_array_to_crop.h) \X (1..image_array_to_crop.w)
        grayscale_img(rc) == Gray(image_array_to_crop.px[rc[1]][rc[2]])
        any_content == \E rc \in cells : grayscale_img(rc) > min_bg_intensity + 5
        \* cv2.inRange and cv2.findNonZero
        content_coords == {rc \in cells :
                              /\ lower_intensity_bound <= grayscale_img(rc)
                              /\ grayscale_img(rc) <= upper_intensity_bound}
        \* cv2.boundingRect
        x == MinOfSet({rc[2] : rc \in content_coords}) - 1
        y == MinOfSet({rc[1] : rc \in content_coords}) - 1
        w == MaxOf({rc[2] : rc \in content_coords}) - x
        h == MaxOf({rc[1] : rc \in content_coords}) - y
        final_content_img ==
            IF any_content /\ content_coords # {}
            THEN Slice(image_array_to_crop, x, y, w, h)
            ELSE image_array_to_crop
        output_h_px == final_content_img.h + 2 * margin_px_around
        output_w_px == final_content_img.w + 2 * margin_px_around
        output_canvas == Filled(output_h_px, output_w_px, background_color_bgr_tuple)
    IN  IF image_array_to_crop.h = 0 \/ image_array_to_crop.w = 0
        THEN image_array_to_crop
        ELSE paste_image_onto_canvas(output_canvas, final_content_img,
                                     margin_px_around, margin_px_around)

\* colours of the model: black, a dark gray, red and white
Black == Px(0, 0, 0, 255)
DarkGray == Px(3, 3, 3, 255)
Red == Px(0, 0, 255, 255)
White == Px(255, 255, 255, 255)
CropPalette == {Black, DarkGray, Red, White}
CropBackgrounds == {Black, White, Red}
CropMargins == {0, 1}

\* a canvas of one colour with a rectangle of another (or the same) colour
CanvasWithBox(h, w, fill, box, r1, r2, c1, c2) ==
    Raster(3, h, w, [r \in 1..h |-> [c \in 1..w |->
        IF r1 <= r /\ r <= r2 /\ c1 <= c /\ c <= c2 THEN box ELSE fill]])
CropCanvases ==
    {CanvasWithBox(h, w, fill, box, r1, r2, c1, c2) :
        h \in 1..MaxSide, w \in 1..MaxSide, fill \in CropPalette, box \in CropPalette,
        r1 \in 1..MaxSide, r2 \in 1..MaxSide, c1 \in 1..MaxSide, c2 \in 1..MaxSide}

CropIdle ==
    /\ cpc = "idle" /\ crop_input = NoRaster /\ crop_bg = Black /\ crop_margin = 0
    /\ crop_once = NoRaster /\ crop_twice = NoRaster

\* final_image = crop_canvas_to_content_with_margin(final_image, bg, margin)
CropCanvas ==
    /\ cpc = "idle"
    /\ \E image_array_to_crop \in CropCanvases, bgr \in CropBackgrounds,
          margin_px_around \in CropMargins :
          /\ crop_input' = image_array_to_crop
          /\ crop_bg' = bgr
          /\ crop_margin' = margin_px_around
          /\ crop_once' = crop_canvas_to_content_with_margin(image_array_to_crop, bgr,
                                                            margin_px_around)
    /\ cpc' = "cropped"
    /\ UNCHANGED crop_twice
    /\ UNCHANGED notCrop

\* the same call on the raster the first call returned
CropAgain ==
    /\ cpc = "cropped"
    /\ crop_twice' = crop_canvas_to_content_with_margin(crop_once, crop_bg, crop_margin)
    /\ cpc' = "recropped"
    /\ UNCHANGED <<crop_input, crop_bg, crop_margin, crop_once>>
    /\ UNCHANGED notCrop

(***************************************************************************)
(* Part S - the choice of the central contour.  A contour is modelled by   *)
(* its moments: m00 (its area, what cv2.contourArea returns), m10 and m01. *)
(* External contours bound disjoint regions that need not be convex, so    *)
(* the centroid of one says nothing about the centroid of another.         *)
(***************************************************************************)
\* a contour of the given area with centroid (cx2 / 2, cy2 / 2)
Contour(area, cx2, cy2) ==
    [m00 |-> area, m10 |-> (area \div 2) * cx2, m01 |-> (area \div 2) * cy2]

\* cv2.contourArea(cnt) >= img_total_area * min_contour_area_as_image_fraction
Qualifies(cnt, img_total_area, fraction) ==
    cnt.m00 * fraction[2] >= img_total_area * fraction[1]

\* four times the square of current_distance, computed from the centroid
\* truncated to whole pixels: int(m10 / m00), int(m01 / m00)
CurrentDistance(cnt, img_height, img_width) ==
    LET centroid_x_pos == cnt.m10 \div cnt.m00
        centroid_y_pos == cnt.m01 \div cnt.m00
    IN  (2 * centroid_x_pos - img_width) * (2 * centroid_x_pos - img_width)
        + (2 * centroid_y_pos - img_height) * (2 * centroid_y_pos - img_height)

\* the loop over qualifying_contours from position i on; shortest_distance
\* is -1 for float('inf')
RECURSIVE BestFrom(_, _, _, _, _, _, _)
BestFrom(contours_found, i, best, shortest_distance, img_height, img_width, fraction) ==
    IF i > Len(contours_found) THEN best
    ELSE IF ~Qualifies(contours_found[i], img_height * img_width, fraction)
    THEN BestFrom(contours_found, i + 1, best, shortest_distance,
                  img_height, img_width, fraction)
    ELSE IF contours_found[i].m00 = 0
    THEN BestFrom(contours_found, i + 1, best, shortest_distance,
                  img_height, img_width, fraction)
    ELSE LET current_distance == CurrentDistance(contours_found[i], img_height, img_width)
         IN  IF shortest_distance = -1 \/ current_distance < shortest_distance
             THEN BestFrom(contours_found, i + 1, i, current_distance,
                           img_height, img_width, fraction)
             ELSE BestFrom(contours_found, i + 1, best, shortest_distance,
                           img_height, img_width, fraction)

\* the position of the contour returned, 0 for None
select_contour_closest_to_image_center(img_height, img_width, contours_found, fraction) ==
    BestFrom(contours_found, 1, 0, -1, img_height, img_width, fraction)

SelectShapes == {<<4, 4>>}
SelectFractions == {<<0, 1>>, <<1, 100>>, <<1, 4>>}
SelectContours ==
    {Contour(0, 0, 0)}
    \cup {Contour(area, cx2, cy2) : area \in {2, 8}, cx2 \in 0..6, cy2 \in 3..5}

SelectIdle ==
    /\ spc = "idle" /\ sel_shape = <<0, 0>> /\ sel_contours = <<>>
    /\ sel_fraction = <<0, 1>> /\ best_contour = 0

\* one call select_contour_closest_to_image_center(image, mask, fraction)
SelectContour ==
    /\ spc = "idle"
    /\ \E shape \in SelectShapes, fraction \in SelectFractions,
          contours_found \in {<<>>} \cup ListsOf(SelectContours, MaxContours) :
          /\ sel_shape' = shape
          /\ sel_contours' = contours_found
          /\ sel_fraction' = fraction
          /\ best_contour' = select_contour_closest_to_image_center(
                                  shape[1], shape[2], contours_found, fraction)
    /\ spc' = "selected"
    /\ UNCHANGED notSelect

(***************************************************************************)
(* Part G - progress and finished callbacks.  Progress values are kept as  *)
(* exact fractions: a value v stands for v / Scale(n) percent, where n is  *)
(* the number of subfolders.                                               *)
(***************************************************************************)
RECURSIVE LcmUpTo(_, _)
LcmUpTo(m, l) == IF l % m = 0 /\ \A k \in 1..m : l % k = 0 THEN l ELSE LcmUpTo(m, l + 1)
ViewsLcm == LcmUpTo(MaxOtherViews, 1)

Scale(n) == 100 * Max2(n, 1) * ViewsLcm
Percent(x, n) == x * Scale(n)

\* prog_per_folder = 85.0 / num_folders
ProgPerFolder(n) == 8500 * ViewsLcm

\* current_prog_base = 10 + i * prog_per_folder
CurrentProgBase(i, n) == Percent(10, n) + i * ProgPerFolder(n)

\* sub_steps_alloc / StepAllocation in hundredths: scale, ruler_art,
\* ruler_part_extract, digital_ruler_choice, digital_ruler_resize
SubStepsAlloc == <<15, 10, 5, 5, 10>>
LayoutDialogAlloc == 5
OtherObjAlloc(r) == IF r = "gui" THEN 25 ELSE 30

\* what a sub-step adds to accumulated_sub_progress: the gui runner and the
\* executor add alloc * prog_per_folder, gui_workflow_runner.py adds alloc
StepShare(r, alloc, n) ==
    IF r = "old_gui" THEN alloc * Max2(n, 1) * ViewsLcm ELSE alloc * 85 * ViewsLcm

\* the value handed to progress_callback: the executor passes int(value)
Reported(r, v, n) == IF r = "executor" THEN (v \div Scale(n)) * Scale(n) ELSE v

\* only the digital ruler resize of the gui runner has a handler of its own
StepMayRaise(r, k) == ~(r = "gui" /\ k = 5)

ProgressCall(v) == [cb |-> "progress", value |-> v]
FinishedCall == [cb |-> "finished", value |-> 0]

NoCallbacks == [last |-> -1, nondecreasing |-> TRUE, in_range |-> TRUE,
                finished |-> 0, progress_after_finished |-> FALSE]

\* the record of the callbacks after the calls of one step, made in order
RECURSIVE AfterCalls(_, _, _)
AfterCalls(seen, calls, n) ==
    IF calls = <<>> THEN seen
    ELSE LET c == Head(calls)
             next ==
                 IF c.cb = "finished"
                 THEN [seen EXCEPT !.finished = @ + 1]
                 ELSE [seen EXCEPT
                         !.last = c.value,
                         !.nondecreasing = @ /\ (seen.last = -1 \/ seen.last <= c.value),
                         !.in_range = @ /\ 0 <= c.value /\ c.value <= Percent(100, n),
                         !.progress_after_finished = @ \/ seen.finished > 0]
         IN  AfterCalls(next, Tail(calls), n)

\* the calls of the branches that end a run
HaltedCalls(n) == <<ProgressCall(Percent(100, n)), FinishedCall>>
NothingToDoCalls(n) == <<ProgressCall(Percent(10, n)), ProgressCall(Percent(100, n)), FinishedCall>>
StoppedCalls == <<FinishedCall>>

C28_Mut_CompleteCalls(n) == <<FinishedCall, ProgressCall(Percent(100, n))>>

CompleteCalls(n) == <<ProgressCall(Percent(100, n)), FinishedCall>>

\* the finally clause of the subfolder's try
FinallyCalls(r, i, n) == <<ProgressCall(Reported(r, CurrentProgBase(i, n) + ProgPerFolder(n), n))>>

BatchSizes == {0, 1, 2, MaxBatch}
CallbackRunners == {"gui", "old_gui", "executor"}

CallbacksIdle ==
    /\ gpc = "idle" /\ g_runner = "gui" /\ g_app_instance = FALSE /\ g_running = TRUE
    /\ g_num_folders = 0 /\ g_i = 0 /\ g_step = 0 /\ g_acc = 0 /\ g_views = 0
    /\ g_view = 0 /\ g_seen = [ok |-> FALSE, err |-> FALSE] /\ g_stopped = FALSE
    /\ callbacks = NoCallbacks

\* the worker thread starts: progress_callback(2)
RunStarts ==
    /\ gpc = "idle"
    /\ \E r \in CallbackRunners, app \in BOOLEAN, n \in BatchSizes :
          /\ (app => r = "gui")
          /\ g_runner' = r
          /\ g_app_instance' = app
          /\ g_num_folders' = n
          /\ callbacks' = AfterCalls(callbacks, <<ProgressCall(Percent(2, n))>>, n)
    /\ gpc' = "organize"
    /\ UNCHANGED <<g_running, g_i, g_step, g_acc, g_views, g_view, g_seen, g_stopped>>
    /\ UNCHANGED notCallbacks

\* the front-end clears the flag
FlagCleared ==
    /\ g_app_instance
    /\ g_running
    /\ gpc \notin {"idle", "done"}
    /\ g_running' = FALSE
    /\ UNCHANGED <<gpc, g_runner, g_app_instance, g_num_folders, g_i, g_step, g_acc,
                   g_views, g_view, g_seen, g_stopped, callbacks>>
    /\ UNCHANGED notCallbacks

\* file organization raises, finds nothing, or finds the subfolders
FilesOrganized ==
    /\ gpc = "organize"
    /\ \E raised \in BOOLEAN :
          IF raised
          THEN /\ callbacks' = AfterCalls(callbacks, HaltedCalls(g_num_folders), g_num_folders)
               /\ gpc' = "done"
          ELSE IF g_num_folders = 0
          THEN /\ callbacks' = AfterCalls(callbacks, NothingToDoCalls(g_num_folders),
                                          g_num_folders)
               /\ gpc' = "done"
          ELSE /\ callbacks' = AfterCalls(callbacks,
                                  <<ProgressCall(Percent(10, g_num_folders))>>, g_num_folders)
               /\ gpc' = "loop"
    /\ UNCHANGED <<g_runner, g_app_instance, g_running, g_num_folders, g_i, g_step,
                   g_acc, g_views, g_view, g_seen, g_stopped>>
    /\ UNCHANGED notCallbacks

\* the head of the loop over the subfolders, and the report after it
NextSubfolder ==
    /\ gpc = "loop"
    /\ IF g_i >= g_num_folders
       THEN /\ callbacks' = AfterCalls(callbacks, CompleteCalls(g_num_folders), g_num_folders)
            /\ gpc' = "done"
            /\ UNCHANGED g_stopped
       ELSE IF g_runner = "gui" /\ g_app_instance /\ ~g_running
       THEN /\ callbacks' = AfterCalls(callbacks, StoppedCalls, g_num_folders)
            /\ gpc' = "done"
            /\ g_stopped' = TRUE
       ELSE /\ callbacks' = AfterCalls(callbacks,
                    <<ProgressCall(Reported(g_runner,
                          CurrentProgBase(g_i, g_num_folders), g_num_folders))>>,
                    g_num_folders)
            /\ gpc' = IF g_runner = "gui" THEN "layout" ELSE "find"
            /\ UNCHANGED g_stopped
    /\ g_step' = 0
    /\ g_acc' = 0
    /\ g_views' = 0
    /\ g_view' = 0
    /\ UNCHANGED <<g_runner, g_app_instance, g_running, g_num_folders, g_i, g_seen>>
    /\ UNCHANGED notCallbacks

\* gui runner: the layout dialog (its errors are caught) and its progress call
LayoutDialogReported ==
    /\ gpc = "layout"
    /\ g_acc' = g_acc + StepShare(g_runner, LayoutDialogAlloc, g_num_folders)
    /\ callbacks' = AfterCalls(callbacks,
           <<ProgressCall(CurrentProgBase(g_i, g_num_folders) + g_acc')>>, g_num_folders)
    /\ gpc' = "find"
    /\ UNCHANGED <<g_runner, g_app_instance, g_running, g_num_folders, g_i, g_step,
                   g_views, g_view, g_seen, g_stopped>>
    /\ UNCHANGED notCallbacks

\* the subfolder ends (counted as ok or as error) through the finally clause
EndsThroughFinally(ok) ==
    /\ callbacks' = AfterCalls(callbacks, FinallyCalls(g_runner, g_i, g_num_folders),
                               g_num_folders)
    /\ g_seen' = IF ok THEN [g_seen EXCEPT !.ok = TRUE] ELSE [g_seen EXCEPT !.err = TRUE]
    /\ g_i' = g_i + 1
    /\ gpc' = "loop"

\* the ruler image is looked up; without one the subfolder is skipped: the
\* executor's continue sits inside the try, the others' before it
RulerLookedUp ==
    /\ gpc = "find"
    /\ \E found \in BOOLEAN :
          IF found
          THEN /\ gpc' = "steps"
               /\ UNCHANGED <<g_i, g_seen, callbacks>>
          ELSE IF g_runner = "executor"
          THEN EndsThroughFinally(FALSE)
          ELSE /\ g_seen' = [g_seen EXCEPT !.err = TRUE]
               /\ g_i' = g_i + 1
               /\ gpc' = "loop"
               /\ UNCHANGED callbacks
    /\ UNCHANGED <<g_runner, g_app_instance, g_running, g_num_folders, g_step, g_acc,
                   g_views, g_view, g_stopped>>
    /\ UNCHANGED notCallbacks

\* one of the sub-steps scale .. digital_ruler_resize: its progress call, or
\* an exception
SubStepReported ==
    /\ gpc = "steps"
    /\ IF g_step = Len(SubStepsAlloc)
       THEN /\ gpc' = "views"
            /\ UNCHANGED <<g_step, g_acc, g_i, g_seen, callbacks>>
       ELSE \E ok \in BOOLEAN :
              IF ok \/ ~StepMayRaise(g_runner, g_step + 1)
              THEN /\ g_step' = g_step + 1
                   /\ g_acc' = g_acc + StepShare(g_runner, SubStepsAlloc[g_step + 1],
                                                 g_num_folders)
                   /\ callbacks' = AfterCalls(callbacks,
                          <<ProgressCall(Reported(g_runner,
                               CurrentProgBase(g_i, g_num_folders) + g_acc', g_num_folders))>>,
                          g_num_folders)
                   /\ gpc' = "steps"
                   /\ UNCHANGED <<g_i, g_seen>>
              ELSE /\ EndsThroughFinally(FALSE)
                   /\ UNCHANGED <<g_step, g_acc>>
    /\ UNCHANGED <<g_runner, g_app_instance, g_running, g_num_folders, g_views, g_view,
                   g_stopped>>
    /\ UNCHANGED notCallbacks

\* the list of the other views is built
OtherViewsListed ==
    /\ gpc = "views"
    /\ \E m \in 0..MaxOtherViews : g_views' = m
    /\ g_view' = 0
    /\ gpc' = "view"
    /\ UNCHANGED <<g_runner, g_app_instance, g_running, g_num_folders, g_i, g_step,
                   g_acc, g_seen, g_stopped, callbacks>>
    /\ UNCHANGED notCallbacks

\* one other view is extracted and reported, or raises
OtherViewReported ==
    /\ gpc = "view"
    /\ IF g_view = g_views
       THEN /\ gpc' = "stitch"
            /\ UNCHANGED <<g_view, g_i, g_seen, callbacks>>
       ELSE \E ok \in BOOLEAN :
              IF ok
              THEN /\ g_view' = g_view + 1
                   /\ callbacks' = AfterCalls(callbacks,
                          <<ProgressCall(Reported(g_runner,
                               CurrentProgBase(g_i, g_num_folders) + g_acc
                               + g_view' * (StepShare(g_runner, OtherObjAlloc(g_runner),
                                                      g_num_folders) \div g_views),
                               g_num_folders))>>,
                          g_num_folders)
                   /\ gpc' = "view"
                   /\ UNCHANGED <<g_i, g_seen>>
              ELSE /\ EndsThroughFinally(FALSE)
                   /\ UNCHANGED g_view
    /\ UNCHANGED <<g_runner, g_app_instance, g_running, g_num_folders, g_step, g_acc,
                   g_views, g_stopped>>
    /\ UNCHANGED notCallbacks

\* process_tablet_subfolder returns or raises; the finally clause reports
SubfolderStitched ==
    /\ gpc = "stitch"
    /\ \E ok \in BOOLEAN : EndsThroughFinally(ok)
    /\ UNCHANGED <<g_runner, g_app_instance, g_running, g_num_folders, g_step, g_acc,
                   g_views, g_view, g_stopped>>
    /\ UNCHANGED notCallbacks

(***************************************************************************)
(* Part O - saving the composite and embedding its metadata.  A call of an *)
(* image writer returns True, returns False or raises; the log keeps for   *)
(* every call whether the file was written.                                *)
(***************************************************************************)
Write(file, by, result) == [op |-> "write", file |-> file, by |-> by, result |-> result, ok |-> result = "true"]
Metadata(file, by) == [op |-> "metadata", file |-> file, by |-> by, result |-> "true", ok |-> TRUE]

WriterOutcomes == {"true", "false", "raise"}

\* some call has written the file
Saved(file_log, file) ==
    \E p \in 1..Len(file_log) :
        file_log[p].op = "write" /\ file_log[p].file = file /\ file_log[p].ok

OutputIdle == opc = "idle" /\ out_impl = "stitch_output" /\ out_log = <<>>

\* the call is made with the final image; save_stitched_output raises on an
\* invalid image before anything is written
BeginSave ==
    /\ opc = "idle"
    /\ \E impl \in {"stitch_output", "stitch_images"}, valid \in BOOLEAN :
          /\ out_impl' = impl
          /\ opc' = IF impl = "stitch_output" /\ ~valid THEN "raised" ELSE "tiff"
    /\ UNCHANGED out_log
    /\ UNCHANGED notOutput

\* the TIFF is written, with the fallback writer when the first one fails.
\* save_tiff_output: cv2.imwrite, a False return raised as IOError, then
\* imageio; its result is whether one of them wrote the file.
\* stitch_images: imageio, then cv2.imwrite whose return value is not read;
\* an exception of the fallback is re-raised.
SaveTiffFile ==
    /\ opc = "tiff"
    /\ IF out_impl = "stitch_output"
       THEN \E cv2_imwrite \in WriterOutcomes, imageio_imwrite \in {"true", "raise"} :
              /\ out_log' =
                     IF cv2_imwrite = "true"
                     THEN Append(out_log, Write("tiff", "cv2", "true"))
                     ELSE out_log \o <<Write("tiff", "cv2", cv2_imwrite),
                                       Write("tiff", "imageio", imageio_imwrite)>>
              /\ opc' = "jpg"
       ELSE \E imageio_imwrite \in {"true", "raise"}, cv2_imwrite \in WriterOutcomes :
              /\ out_log' =
                     IF imageio_imwrite = "true"
                     THEN Append(out_log, Write("tiff", "imageio", "true"))
                     ELSE out_log \o <<Write("tiff", "imageio", "raise"),
                                       Write("tiff", "cv2", cv2_imwrite)>>
              /\ opc' = IF imageio_imwrite = "raise" /\ cv2_imwrite = "raise"
                        THEN "raised" ELSE "jpg"
    /\ UNCHANGED out_impl
    /\ UNCHANGED notOutput

\* the JPG is written with cv2.imwrite; an exception is caught in both
SaveJpgFile ==
    /\ opc = "jpg"
    /\ \E cv2_imwrite \in WriterOutcomes :
          out_log' = Append(out_log, Write("jpg", "cv2", cv2_imwrite))
    /\ opc' = "meta_tiff"
    /\ UNCHANGED out_impl
    /\ UNCHANGED notOutput

\* what the metadata embedder is called with for one file: apply_all_metadata
\* and, when it returns False, set_basic_exif_metadata
ApplyMetadataCalls(file, metadata_applied) ==
    IF metadata_applied THEN <<Metadata(file, "apply_all_metadata")>>
    ELSE <<Metadata(file, "apply_all_metadata"), Metadata(file, "set_basic_exif_metadata")>>

\* save_stitched_output: "if tiff_save_success: apply_metadata(tiff_filepath, ...)";
\* stitch_images: set_basic_exif_metadata and apply_xmp_metadata_via_exiftool
\* on the TIFF path
EmbedTiffMetadata ==
    /\ opc = "meta_tiff"
    /\ IF out_impl = "stitch_output"
       THEN \E metadata_applied \in BOOLEAN :
              out_log' = IF Saved(out_log, "tiff")
                         THEN out_log \o ApplyMetadataCalls("tiff", metadata_applied)
                         ELSE out_log
       ELSE out_log' = out_log \o <<Metadata("tiff", "set_basic_exif_metadata"),
                                     Metadata("tiff", "exiftool")>>
    /\ opc' = IF out_impl = "stitch_output" THEN "meta_jpg" ELSE "returned"
    /\ UNCHANGED out_impl
    /\ UNCHANGED notOutput

\* save_stitched_output: "if jpg_save_success: apply_metadata(jpg_filepath, ...)"
EmbedJpgMetadata ==
    /\ opc = "meta_jpg"
    /\ \E metadata_applied \in BOOLEAN :
          out_log' = IF Saved(out_log, "jpg")
                     THEN out_log \o ApplyMetadataCalls("jpg", metadata_applied)
                     ELSE out_log
    /\ opc' = "returned"
    /\ UNCHANGED out_impl
    /\ UNCHANGED notOutput

\* rasters (h, w) the views of one tablet are drawn from
ObverseRasters == {[h |-> 200, w |-> 100], [h |-> 1000, w |-> 600]}
SideRasters == {[h |-> 300, w |-> 50], [h |-> 1001, w |-> 300]}
ObverseChoices ==
    {NoneSlot, Img(0, 0), ImgList(<<[h |-> 200, w |-> 100], [h |-> 200, w |-> 100]>>)}
    \cup {[kind |-> "img", imgs |-> <<r>>] : r \in ObverseRasters}
LeftChoices ==
    {NoneSlot, Img(202, 60)}
    \cup {[kind |-> "img", imgs |-> <<r>>] : r \in SideRasters}
    \cup {ImgList(l) : l \in ListsOf(SideRasters, MaxSeqLen)}
RightChoices == {NoneSlot, Img(150, 75), Img(200, 150)}
StackedChoices == {NoneSlot, Img(80, 100), Img(400, 300)}
RulerChoices == {NoneSlot, Img(80, 30), Img(60, 700)}
CustomLayoutChoices ==
    {NoCustomLayout, CustomLayout({}), CustomLayout({"obverse", "reverse"}),
     CustomLayout({"reverse", "left"})}

ViewSets ==
    {[k \in Keys |->
        CASE k = "obverse" -> o [] k = "left" -> l [] k = "right" -> r
          [] k = "reverse" -> v [] k = "bottom" -> b [] k = "top" -> t
          [] k = "ruler" -> u] :
     o \in ObverseChoices, l \in LeftChoices, r \in RightChoices,
     v \in StackedChoices, b \in StackedChoices, t \in StackedChoices,
     u \in RulerChoices}

EmptyViewSet == [k \in Keys |-> NoneSlot]

LayoutIdle ==
    /\ lpc = "idle"
    /\ loaded_images = EmptyViewSet
    /\ custom_layout = NoCustomLayout
    /\ resized_images = EmptyViewSet
    /\ plan = LayoutError
    /\ segments = NoSegments

\* process_tablet_subfolder, step 1: the loader returns one entry per view key
LoadImages ==
    /\ lpc = "idle"
    /\ \E d \in ViewSets, c \in CustomLayoutChoices :
          /\ loaded_images' = d
          /\ custom_layout' = c
    /\ lpc' = "loaded"
    /\ UNCHANGED <<resized_images, plan, segments>>
    /\ UNCHANGED notLayout

\* process_tablet_subfolder, step 2
ResizeViews ==
    /\ lpc = "loaded"
    /\ resized_images' = resize_tablet_views_for_layout(loaded_images)
    /\ lpc' = "resized"
    /\ UNCHANGED <<loaded_images, custom_layout, plan, segments>>
    /\ UNCHANGED notLayout

\* process_tablet_subfolder, step 3: a ValueError ends the subfolder's stitching
CalculateLayout ==
    /\ lpc = "resized"
    /\ plan' = calculate_stitching_layout(resized_images, STITCH_VIEW_GAP_PX,
                    STITCH_RULER_PADDING_PX, custom_layout, LAYOUT_BLEND_OVERLAP_PX)
    /\ lpc' = IF plan'.ok THEN "planned" ELSE "failed"
    /\ UNCHANGED <<loaded_images, custom_layout, resized_images, segments>>
    /\ UNCHANGED notLayout

\* process_tablet_subfolder, step 4: create_stitched_canvas blends every
\* sequence slot of the plan; an exception in a blend ends the stitching
ComposeCanvas ==
    /\ lpc = "planned"
    /\ \E weighted_ok \in BOOLEAN :
          segments' = [k \in SequenceSlots(plan) |->
                          SegmentShape(k, plan.images[k].imgs,
                                       DEFAULT_BLEND_OVERLAP_PX, weighted_ok)]
    /\ lpc' = IF \E k \in DOMAIN segments' : segments'[k].status = "raised"
              THEN "compose_raised" ELSE "composed"
    /\ UNCHANGED <<loaded_images, custom_layout, resized_images, plan>>
    /\ UNCHANGED notLayout

(***************************************************************************)
(* Part N - the refactored LayoutCalculator                                *)
(* (stitching/services/layout_manager.py behind stitch_layout_manager_new) *)
(* next to the original one.                                               *)
(***************************************************************************)
DEFAULT_CANVAS_PADDING == 100

\* StitchingConfig(view_separation_px=..., ruler_top_padding_px=...)
StitchingConfig(view_separation_px, ruler_top_padding_px) ==
    [view_separation_px |-> view_separation_px,
     ruler_top_padding_px |-> ruler_top_padding_px,
     canvas_padding |-> DEFAULT_CANVAS_PADDING]

\* "img is not None and img.size > 0" of the refactored code: a list has no
\* attribute size
SizeRaises(slot) == slot.kind = "seq"
HasSize(slot) == slot.kind = "img" /\ ValidArray(slot.imgs[1])

\* stitching.services.image_resizer.get_image_dimension: 0 unless an array
ArrayDimension(images_dict, key, axis_index) ==
    IF key \in DOMAIN images_dict /\ HasSize(images_dict[key])
    THEN Shape(images_dict[key].imgs[1], axis_index) ELSE 0

\* the result of the call and the dictionary object it was given, as the
\* call leaves it ("images_dict[side_key + "_rotated"] = rot_img")
calculate_stitching_canvas_layout(images_dict, config) ==
    LET dim(k, axis) == ArrayDimension(images_dict, k, axis)
        put(k) == HasSize(images_dict[k])
        sep == config.view_separation_px
        obv_h == dim("obverse", 0)
        obv_w == dim("obverse", 1)
        l_w == dim("left", 1)
        r_w == dim("right", 1)
        b_h == dim("bottom", 0)
        rev_h == dim("reverse", 0)
        t_h == dim("top", 0)
        rul_h == dim("ruler", 0)
        rul_w == dim("ruler", 1)
        row1_0 == l_w + (IF l_w > 0 /\ obv_w > 0 THEN sep ELSE 0) + obv_w
                  + (IF r_w > 0 /\ obv_w > 0 THEN sep ELSE 0) + r_w
        row1_w == IF row1_0 = 0 /\ obv_w > 0 THEN obv_w ELSE row1_0
        canvas_w == MaxOf({row1_w, obv_w, dim("bottom", 1), dim("reverse", 1),
                           dim("top", 1), rul_w}) + config.canvas_padding * 2
        canvas_h == obv_h
                    + (IF b_h > 0 THEN sep + b_h ELSE 0)
                    + (IF rev_h > 0 THEN sep + rev_h ELSE 0)
                    + (IF t_h > 0 THEN sep + t_h ELSE 0)
                    + (IF rul_h > 0 THEN config.ruler_top_padding_px + rul_h ELSE 0)
                    + config.canvas_padding * 2
        y_row1 == config.canvas_padding \div 2
        start_x_row1 == IF row1_w > 0 THEN FloorHalf(canvas_w - row1_w)
                        ELSE FloorHalf(canvas_w - obv_w)
        obverse_x_pos == IF put("left") THEN start_x_row1 + l_w + sep ELSE start_x_row1
        y_after_row1 == y_row1 + obv_h
        y_bottom == y_after_row1 + sep
        y_after_bottom == IF put("bottom") THEN y_bottom + b_h ELSE y_after_row1
        y_reverse == y_after_bottom + sep
        y_after_reverse == IF put("reverse") THEN y_reverse + rev_h ELSE y_after_bottom
        y_top == y_after_reverse + sep
        y_after_top == IF put("top") THEN y_top + t_h ELSE y_after_reverse
        y_ruler == y_after_top + config.ruler_top_padding_px
        y_curr == IF put("ruler") THEN y_ruler ELSE y_after_top
        y_align_for_rotated == IF put("reverse") THEN y_after_reverse ELSE y_curr
        position(k) ==
            CASE k = "left" -> <<start_x_row1, y_row1>>
              [] k = "obverse" -> <<obverse_x_pos, y_row1>>
              [] k = "right" -> <<obverse_x_pos + obv_w + sep, y_row1>>
              [] k = "bottom" -> <<obverse_x_pos + FloorHalf(obv_w - dim("bottom", 1)), y_bottom>>
              [] k = "reverse" -> <<obverse_x_pos + FloorHalf(obv_w - dim("reverse", 1)), y_reverse>>
              [] k = "top" -> <<obverse_x_pos + FloorHalf(obv_w - dim("top", 1)), y_top>>
              [] k = "ruler" -> <<obverse_x_pos + FloorHalf(obv_w - rul_w), y_ruler>>
              [] k = "left_rotated" ->
                    <<start_x_row1, y_align_for_rotated - dim("left", 0)>>
              [] k = "right_rotated" ->
                    <<obverse_x_pos + obv_w + sep, y_align_for_rotated - dim("right", 0)>>
        rotated == {k \in RotatedKeys : put(RotatedOf(k))}
        placed == {"obverse"}
                  \cup {k \in {"left", "right", "bottom", "reverse", "top", "ruler"} : put(k)}
                  \cup rotated
        images_after ==
            [k \in DOMAIN images_dict \cup rotated |->
                IF k \in rotated THEN images_dict[RotatedOf(k)] ELSE images_dict[k]]
        raises ==
            \/ ~(obv_h > 0 /\ obv_w > 0)
            \/ \E k \in {"left", "right", "bottom", "reverse", "top", "ruler"} :
                  SizeRaises(images_dict[k])
    IN  IF raises THEN [result |-> LayoutError, images_dict |-> images_dict]
        ELSE [result |-> [ok |-> TRUE, canvas_w |-> canvas_w, canvas_h |-> canvas_h,
                          ref_key |-> "obverse",
                          coords |-> [k \in placed |-> position(k)],
                          images |-> images_after],
              images_dict |-> images_after]

\* the gap and ruler padding of the comparison, and the defaults
ComparedSettings == {<<20, 30>>, <<STITCH_VIEW_GAP_PX, STITCH_RULER_PADDING_PX>>}

RefactorIdle ==
    /\ tpc = "idle"
    /\ t_images = EmptyViewSet
    /\ t_config = <<STITCH_VIEW_GAP_PX, STITCH_RULER_PADDING_PX>>
    /\ old_arg = EmptyViewSet
    /\ new_arg = EmptyViewSet
    /\ old_result = LayoutError
    /\ new_result = LayoutError

\* the views after the ViewResizer; each function is handed a dictionary
\* object with these entries
ResizedForBoth ==
    /\ tpc = "idle"
    /\ \E d \in ViewSets, c \in ComparedSettings :
          /\ t_images' = resize_tablet_views_for_layout(d)
          /\ t_config' = c
    /\ old_arg' = t_images'
    /\ new_arg' = t_images'
    /\ tpc' = "ready"
    /\ UNCHANGED <<old_result, new_result>>
    /\ UNCHANGED notRefactor

\* old_module.calculate_stitching_layout(images, gap, padding): it works on
\* "modified_images_dict = dict(images_dict)"
CallOriginal ==
    /\ tpc = "ready"
    /\ old_result' = calculate_stitching_layout(old_arg, t_config[1], t_config[2],
                                                NoCustomLayout, 0)
    /\ tpc' = "old_done"
    /\ UNCHANGED <<t_images, t_config, old_arg, new_arg, new_result>>
    /\ UNCHANGED notRefactor

\* new_module.calculate_stitching_layout(images, gap, padding)
CallRefactored ==
    /\ tpc = "old_done"
    /\ LET call == calculate_stitching_canvas_layout(
                       new_arg, StitchingConfig(t_config[1], t_config[2]))
       IN  /\ new_result' = call.result
           /\ new_arg' = call.images_dict
    /\ tpc' = "done"
    /\ UNCHANGED <<t_images, t_config, old_arg, old_result>>
    /\ UNCHANGED notRefactor

(***************************************************************************)
(* Part U - the complex-layout dialog: one main slot, two intermediate     *)
(* sequences, the thumbnails that can be clicked, and the undo history.    *)
(* Rotations are left at 0.  layout_rectangles[slot]["current_image"] is   *)
(* written together with result_layout[slot] everywhere and is read from   *)
(* result_layout here.                                                     *)
(***************************************************************************)
ImagePaths == {"a.tif", "b.tif"}
MainSlots == {"obverse"}
SequenceSlotKeys == {"intermediate_obverse_top", "intermediate_obverse_bottom"}

NoItem == [path |-> "", rotation |-> 0]
\* {"path": img_path, "rotation": self.image_rotations.get(img_path, 0)}
Item(img_path) == [path |-> img_path, rotation |-> 0]

\* one entry of action_history: (action_type, args)
Action(type, slot, old, new, index, new_idx) ==
    [type |-> type, slot |-> slot, old |-> old, new |-> new, idx |-> index, new_idx |-> new_idx]

\* get_default_layout_structure
DefaultLayout ==
    [k \in MainSlots \cup SequenceSlotKeys |->
        IF k \in MainSlots THEN <<NoItem>> ELSE <<>>]

\* a main slot holds one entry, NoItem for None
Assigned(layout, slot) == layout[slot][1]

\* list.pop(index) and list.insert(index, item) with 0-based index
Without(seq, index) == SubSeq(seq, 1, index) \o SubSeq(seq, index + 2, Len(seq))
InsertAt(seq, index, item) ==
    LET at == IF index > Len(seq) THEN Len(seq) ELSE index
    IN  SubSeq(seq, 1, at) \o <<item>> \o SubSeq(seq, at + 1, Len(seq))
\* 0-based index of the first element equal to item: list.remove(item)
IndexOf(seq, item) == (CHOOSE p \in 1..Len(seq) : seq[p] = item /\ \A q \in 1..(p - 1) : seq[q] # item) - 1
Contains(seq, item) == \E p \in 1..Len(seq) : seq[p] = item
\* [item for item in sequence if item.get("path") != img_path]
RECURSIVE WithoutPath(_, _)
WithoutPath(seq, img_path) ==
    IF seq = <<>> THEN <<>>
    ELSE (IF Head(seq).path = img_path THEN <<>> ELSE <<Head(seq)>>)
         \o WithoutPath(Tail(seq), img_path)

NotUndone == [type |-> "none", slot |-> "", expected |-> DefaultLayout]

UndoIdle ==
    /\ result_layout = DefaultLayout
    /\ selected_image_path = ""
    /\ action_history = <<>>
    /\ sequence_dialog = ""
    /\ label_packed = [p \in ImagePaths |-> TRUE]
    /\ frame_packed = [p \in ImagePaths |-> TRUE]
    /\ layouts_before = <<>>
    /\ undone = NotUndone

\* record_action, and the layout the action starts from
Recorded(action) ==
    /\ action_history' = Append(action_history, action)
    /\ layouts_before' = Append(layouts_before, result_layout)

\* a click on a thumbnail of the list of available images
ThumbnailClick ==
    /\ sequence_dialog = ""
    /\ \E p \in ImagePaths :
          /\ label_packed[p] /\ frame_packed[p]
          /\ selected_image_path' = p
    /\ undone' = NotUndone
    /\ UNCHANGED <<result_layout, action_history, sequence_dialog, label_packed,
                   frame_packed, layouts_before>>
    /\ UNCHANGED notUndo

\* _on_rectangle_click on a main slot with an image selected:
\* _assign_image_to_slot and the deselection
AssignImageToSlot ==
    /\ sequence_dialog = ""
    /\ selected_image_path # ""
    /\ \E slot_name \in MainSlots :
          LET img_path == selected_image_path
              previous_assignment_data == Assigned(result_layout, slot_name)
              new_assignment_data == Item(img_path)
              current_img_path == previous_assignment_data.path
          IN  /\ IF previous_assignment_data # new_assignment_data
                 THEN /\ Len(action_history) < MaxActions
                      /\ Recorded(Action("assign", slot_name, previous_assignment_data,
                                          new_assignment_data, 0, 0))
                 ELSE UNCHANGED <<action_history, layouts_before>>
              /\ result_layout' =
                    [k \in DOMAIN result_layout |->
                        IF k = slot_name THEN <<new_assignment_data>>
                        ELSE IF k \in SequenceSlotKeys
                        THEN WithoutPath(result_layout[k], img_path)
                        ELSE result_layout[k]]
              /\ label_packed' =
                    IF current_img_path # ""
                    THEN [label_packed EXCEPT ![current_img_path] = TRUE]
                    ELSE label_packed
              /\ frame_packed' = [frame_packed EXCEPT ![img_path] = FALSE]
    /\ selected_image_path' = ""
    /\ undone' = NotUndone
    /\ UNCHANGED sequence_dialog
    /\ UNCHANGED notUndo

\* _on_rectangle_click on a main slot that has an image, nothing selected,
\* and the removal confirmed: _unassign_image_from_slot
UnassignImageFromSlot ==
    /\ sequence_dialog = ""
    /\ selected_image_path = ""
    /\ Len(action_history) < MaxActions
    /\ \E slot_name \in MainSlots :
          LET img_data == Assigned(result_layout, slot_name)
              img_path == img_data.path
              is_used_elsewhere ==
                  \E k \in SequenceSlotKeys : Contains(result_layout[k], img_data)
          IN  /\ img_path # ""
              /\ Recorded(Action("unassign", slot_name, NoItem, img_data, 0, 0))
              /\ result_layout' = [result_layout EXCEPT ![slot_name] = <<NoItem>>]
              /\ frame_packed' = IF is_used_elsewhere THEN frame_packed
                                 ELSE [frame_packed EXCEPT ![img_path] = TRUE]
    /\ undone' = NotUndone
    /\ UNCHANGED <<selected_image_path, sequence_dialog, label_packed>>
    /\ UNCHANGED notUndo

\* _on_rectangle_click on a sequence slot: show_sequence_dialog
OpenSequenceDialog ==
    /\ sequence_dialog = ""
    /\ \E slot_key \in SequenceSlotKeys : sequence_dialog' = slot_key
    /\ undone' = NotUndone
    /\ UNCHANGED <<result_layout, selected_image_path, action_history, label_packed,
                   frame_packed, layouts_before>>
    /\ UNCHANGED notUndo

CloseSequenceDialog ==
    /\ sequence_dialog # ""
    /\ sequence_dialog' = ""
    /\ undone' = NotUndone
    /\ UNCHANGED <<result_layout, selected_image_path, action_history, label_packed,
                   frame_packed, layouts_before>>
    /\ UNCHANGED notUndo

\* add_selected_to_sequence past its three early returns
AddSelectedToSequence ==
    /\ sequence_dialog # ""
    /\ selected_image_path # ""
    /\ \A slot_name \in MainSlots :
          Assigned(result_layout, slot_name).path # selected_image_path
    /\ Len(action_history) < MaxActions
    /\ LET slot_key == sequence_dialog
           processed_sequence == result_layout[slot_key]
           new_item == Item(selected_image_path)
       IN  /\ \A p \in 1..Len(processed_sequence) :
                 processed_sequence[p].path # selected_image_path
           /\ Recorded(Action("add_sequence", slot_key, NoItem, new_item,
                               Len(processed_sequence), 0))
           /\ result_layout' =
                 [result_layout EXCEPT ![slot_key] = Append(processed_sequence, new_item)]
           /\ label_packed' = [label_packed EXCEPT ![selected_image_path] = FALSE]
    /\ selected_image_path' = ""
    /\ undone' = NotUndone
    /\ UNCHANGED <<sequence_dialog, frame_packed>>
    /\ UNCHANGED notUndo

\* remove_from_sequence with the entry index of the listbox selected
RemoveFromSequence ==
    /\ sequence_dialog # ""
    /\ Len(action_history) < MaxActions
    /\ LET slot_key == sequence_dialog
           processed_sequence == result_layout[slot_key]
       IN  \E index \in 0..(Len(processed_sequence) - 1) :
              LET removed_item == processed_sequence[index + 1]
              IN  /\ result_layout' =
                        [result_layout EXCEPT ![slot_key] = Without(processed_sequence, index)]
                  /\ Recorded(Action("remove_sequence", slot_key, NoItem, removed_item,
                                      index, 0))
                  /\ label_packed' = [label_packed EXCEPT ![removed_item.path] = TRUE]
    /\ undone' = NotUndone
    /\ UNCHANGED <<selected_image_path, sequence_dialog, frame_packed>>
    /\ UNCHANGED notUndo

\* move_sequence_item with the entry index selected and a new index in range
MoveSequenceItem ==
    /\ sequence_dialog # ""
    /\ Len(action_history) < MaxActions
    /\ LET slot_key == sequence_dialog
           processed_sequence == result_layout[slot_key]
       IN  \E index \in 0..(Len(processed_sequence) - 1), direction \in {-1, 1} :
              LET new_idx == index + direction
                  img_item_to_move == processed_sequence[index + 1]
              IN  /\ 0 <= new_idx /\ new_idx < Len(processed_sequence)
                  /\ result_layout' =
                        [result_layout EXCEPT ![slot_key] =
                            InsertAt(Without(processed_sequence, index), new_idx,
                                     img_item_to_move)]
                  /\ Recorded(Action("move_sequence", slot_key, NoItem, img_item_to_move,
                                      index, new_idx))
    /\ undone' = NotUndone
    /\ UNCHANGED <<selected_image_path, sequence_dialog, label_packed, frame_packed>>
    /\ UNCHANGED notUndo

\* what undo_last_action makes of the layout for the popped action
Reverted(layout, action) ==
    LET seq == layout[action.slot]
    IN  CASE action.type = "assign" ->
               [layout EXCEPT ![action.slot] = <<action.old>>]
          [] action.type = "unassign" ->
               [layout EXCEPT ![action.slot] = <<action.new>>]
          [] action.type = "add_sequence" ->
               IF Contains(seq, action.new)
               THEN [layout EXCEPT ![action.slot] = Without(seq, IndexOf(seq, action.new))]
               ELSE layout
          [] action.type = "remove_sequence" ->
               [layout EXCEPT ![action.slot] = InsertAt(seq, action.idx, action.new)]
          [] action.type = "move_sequence" ->
               IF Contains(seq, action.new)
               THEN [layout EXCEPT ![action.slot] =
                        InsertAt(Without(seq, IndexOf(seq, action.new)), action.idx,
                                 action.new)]
               ELSE layout

\* the undo button with a non-empty history: undo_last_action
UndoLastAction ==
    /\ sequence_dialog = ""
    /\ action_history # <<>>
    /\ LET last_action == action_history[Len(action_history)]
           img_path == last_action.new.path
       IN  /\ result_layout' = Reverted(result_layout, last_action)
           /\ label_packed' =
                 CASE last_action.type = "assign" ->
                        [p \in ImagePaths |->
                            IF p = last_action.old.path THEN FALSE
                            ELSE IF p = img_path THEN TRUE
                            ELSE label_packed[p]]
                   [] last_action.type = "unassign" ->
                        [label_packed EXCEPT ![img_path] = FALSE]
                   [] last_action.type = "add_sequence" ->
                        IF Contains(result_layout[last_action.slot], last_action.new)
                        THEN [label_packed EXCEPT ![img_path] = TRUE]
                        ELSE label_packed
                   [] last_action.type = "remove_sequence" ->
                        [label_packed EXCEPT ![img_path] = FALSE]
                   [] OTHER -> label_packed
           /\ undone' = [type |-> last_action.type, slot |-> last_action.slot,
                         expected |-> layouts_before[Len(layouts_before)]]
    /\ action_history' = SubSeq(action_history, 1, Len(action_history) - 1)
    /\ layouts_before' = SubSeq(layouts_before, 1, Len(layouts_before) - 1)
    /\ UNCHANGED <<selected_image_path, sequence_dialog, frame_packed>>
    /\ UNCHANGED notUndo

(***************************************************************************)
(* Part R - the ruler scale estimate.  Fractions of the source are written *)
(* in hundredths, so that every comparison is one of integers.             *)
(***************************************************************************)
ROI_VERTICAL_START_FRACTION == 0
ROI_VERTICAL_END_FRACTION == 25
ROI_HORIZONTAL_START_FRACTION == 2
ROI_HORIZONTAL_END_FRACTION == 15
ANALYSIS_SCANLINE_COUNT == 7
MARK_BINARIZATION_THRESHOLD == 150
MIN_EXPECTED_MARK_WIDTH_AS_ROI_FRACTION == 4
MAX_EXPECTED_MARK_WIDTH_AS_ROI_FRACTION == 30
MARK_WIDTH_SIMILARITY_TOLERANCE_FRACTION == 40
MIN_ALTERNATING_MARKS_FOR_SCALE_ESTIMATION == 2

Positions == {"top", "bottom", "left", "right"}

\* int(x * f) for a fraction f given in hundredths
IntOfFraction(x, f) == (x * f) \div 100

\* start and end coordinate of the region of interest along the cut axis
RoiBounds(position, dim) ==
    CASE position = "top" ->
            <<IntOfFraction(dim, ROI_VERTICAL_START_FRACTION),
              IntOfFraction(dim, ROI_VERTICAL_END_FRACTION)>>
      [] position = "bottom" ->
            <<IntOfFraction(dim, 100 - ROI_VERTICAL_END_FRACTION),
              IntOfFraction(dim, 100 - ROI_VERTICAL_START_FRACTION)>>
      [] position = "left" ->
            <<IntOfFraction(dim, ROI_HORIZONTAL_START_FRACTION),
              IntOfFraction(dim, ROI_HORIZONTAL_END_FRACTION)>>
      [] position = "right" ->
            <<IntOfFraction(dim, 100 - ROI_HORIZONTAL_END_FRACTION),
              IntOfFraction(dim, 100 - ROI_HORIZONTAL_START_FRACTION)>>
      [] OTHER -> <<0, 0>>

RoiValid(position, dim) ==
    /\ position \in Positions
    /\ 0 <= RoiBounds(position, dim)[1]
    /\ RoiBounds(position, dim)[1] < RoiBounds(position, dim)[2]
    /\ RoiBounds(position, dim)[2] <= dim

\* np.where(scanline < cutoff, 0, 255)
Binarized(scanline_data_array, binarization_cutoff_value) ==
    [p \in 1..Len(scanline_data_array) |->
        IF scanline_data_array[p] < binarization_cutoff_value THEN 0 ELSE 255]

\* 'black' if pixel_intensity_value == 0 else 'white'
ColourType(pixel_intensity_value) == IF pixel_intensity_value = 0 THEN "black" ELSE "white"

\* the run appended when the pixel at index closes the run that began at start
PixelRun(colour, start, index) ==
    [type |-> colour, start_index |-> start, end_index |-> index - 1,
     width_pixels |-> index - start]

C26_Mut_ColourChanges(current_pixel_color_type, current_run_color_value) == TRUE
\* "elif current_pixel_color_type != current_run_color_value"
ColourChanges(current_pixel_color_type, current_run_color_value) == current_pixel_color_type # current_run_color_value

\* the loop over the binarized scanline from index on (0-based) and the
\* append of the last run after it; colour "none" is the initial None
RECURSIVE RunsFrom(_, _, _, _, _)
RunsFrom(bin, index, colour, start, runs) ==
    IF index = Len(bin)
    THEN IF colour # "none" /\ Len(bin) - start > 0
         THEN Append(runs, PixelRun(colour, start, Len(bin)))
         ELSE runs
    ELSE LET current_pixel_color_type == ColourType(bin[index + 1])
         IN  IF colour = "none"
             THEN RunsFrom(bin, index + 1, current_pixel_color_type, index, runs)
             ELSE IF ColourChanges(current_pixel_color_type, colour)
             THEN RunsFrom(bin, index + 1, current_pixel_color_type, index,
                           IF index - start > 0
                           THEN Append(runs, PixelRun(colour, start, index))
                           ELSE runs)
             ELSE RunsFrom(bin, index + 1, colour, start, runs)

extract_pixel_runs_from_scanline_data(scanline_data_array, binarization_cutoff_value) ==
    IF Len(scanline_data_array) = 0 THEN <<>>
    ELSE RunsFrom(Binarized(scanline_data_array, binarization_cutoff_value), 0, "none", 0, <<>>)

\* min_allowable_mark_width_px <= width <= max_allowable_mark_width_px
WidthAllowed(width_px, roi_scan_dimension_length_px) ==
    /\ MIN_EXPECTED_MARK_WIDTH_AS_ROI_FRACTION * roi_scan_dimension_length_px
          <= 100 * width_px
    /\ 100 * width_px
          <= MAX_EXPECTED_MARK_WIDTH_AS_ROI_FRACTION * roi_scan_dimension_length_px

C8_Mut_WidthsSimilar(current_mark_width_px, initial_mark_width_px) == TRUE

\* abs(current - initial) <= initial * MARK_WIDTH_SIMILARITY_TOLERANCE_FRACTION
WidthsSimilar(current_mark_width_px, initial_mark_width_px) ==
    100 * Abs(current_mark_width_px - initial_mark_width_px)
        <= MARK_WIDTH_SIMILARITY_TOLERANCE_FRACTION * initial_mark_width_px

\* the body of the loop over j for one j (1-based): is_valid_mark_sequence
IsValidMarkSequence(runs, j, scan_length) ==
    /\ runs[j].type = "black"
    /\ WidthAllowed(runs[j].width_pixels, scan_length)
    /\ \A k \in 1..(MIN_ALTERNATING_MARKS_FOR_SCALE_ESTIMATION - 1) :
          /\ runs[j + k].type # runs[j + k - 1].type
          /\ WidthAllowed(runs[j + k].width_pixels, scan_length)
          /\ WidthsSimilar(runs[j + k].width_pixels, runs[j].width_pixels)

RECURSIVE CandidatesFrom(_, _, _, _)
CandidatesFrom(runs, j, i, scan_length) ==
    IF j > Len(runs) - (MIN_ALTERNATING_MARKS_FOR_SCALE_ESTIMATION - 1) THEN <<>>
    ELSE (IF IsValidMarkSequence(runs, j, scan_length)
          THEN <<[scanline |-> i, start_index |-> runs[j].start_index,
                  widths |-> [k \in 1..MIN_ALTERNATING_MARKS_FOR_SCALE_ESTIMATION |->
                                 runs[j + k - 1].width_pixels]]>>
          ELSE <<>>)
         \o CandidatesFrom(runs, j + 1, i, scan_length)

\* the candidates scanline i contributes
CandidatesOnScanline(current_scanline_pixel_data, i) ==
    CandidatesFrom(
        extract_pixel_runs_from_scanline_data(current_scanline_pixel_data,
                                              MARK_BINARIZATION_THRESHOLD),
        1, i, Len(current_scanline_pixel_data))

\* int(n * ((i + 0.5) / ANALYSIS_SCANLINE_COUNT))
ScanlineCoordinate(n, i) == (n * (2 * i + 1)) \div (2 * ANALYSIS_SCANLINE_COUNT)

RECURSIVE SumSeq(_)
SumSeq(q) == IF q = <<>> THEN 0 ELSE Head(q) + SumSeq(Tail(q))

\* the k-th smallest of the candidates' width sums
KthSum(cands, k) ==
    CHOOSE v \in {SumSeq(cands[p].widths) : p \in 1..Len(cands)} :
        /\ Cardinality({p \in 1..Len(cands) : SumSeq(cands[p].widths) < v}) < k
        /\ Cardinality({p \in 1..Len(cands) : SumSeq(cands[p].widths) <= v}) >= k

\* np.median of the candidates' means, as the fraction MedianNum / MedianDen
MedianDen == 2 * MIN_ALTERNATING_MARKS_FOR_SCALE_ESTIMATION
MedianNum(cands) ==
    LET n == Len(cands)
    IN  IF n % 2 = 1 THEN 2 * KthSum(cands, (n + 1) \div 2)
        ELSE KthSum(cands, n \div 2) + KthSum(cands, n \div 2 + 1)

C7_Mut_TooSmall(num, den) == num < den

\* estimated_pixels_per_cm_value <= 1
TooSmall(num, den) == num <= den

NoEstimate == [status |-> "none", num |-> 0, den |-> 1]
CalibrationFailure == [status |-> "error", num |-> 0, den |-> 1]

\* scanlines the model draws images from: runs of dark and light pixels
RunWidths == {1, 2, 3, 6}
ImageDims == {3, 4, 8}
PixelOf(colour) ==
    IF colour = "black" THEN MARK_BINARIZATION_THRESHOLD - 1
    ELSE MARK_BINARIZATION_THRESHOLD
RECURSIVE Expand(_, _)
Expand(run_widths, colour) ==
    IF run_widths = <<>> THEN <<>>
    ELSE [p \in 1..Head(run_widths) |-> PixelOf(colour)]
         \o Expand(Tail(run_widths), IF colour = "black" THEN "white" ELSE "black")
ScanLines ==
    {Expand(r, c) : r \in ListsOf(RunWidths, MaxRuns), c \in {"black", "white"}}
\* regions of interest with n lines, all of one length
Regions(n) ==
    UNION {[1..n -> {l \in ScanLines : Len(l) = len}] : len \in {Len(l) : l \in ScanLines}}

RulerIdle ==
    /\ rpc = "idle" /\ ruler_position = "top" /\ image_dim = 0 /\ roi = <<>>
    /\ scan_i = 0 /\ candidates = <<>> /\ estimate = NoEstimate

\* cv2.imread and the cut of the region of interest
ReadRulerImage ==
    /\ rpc = "idle"
    /\ \E readable \in BOOLEAN, position \in Positions \cup {"center"},
          dim \in ImageDims :
          /\ ruler_position' = position
          /\ image_dim' = dim
          /\ IF ~readable \/ ~RoiValid(position, dim)
             THEN /\ roi' = <<>>
                  /\ estimate' = CalibrationFailure
                  /\ rpc' = "done"
             ELSE /\ \E region \in Regions(RoiBounds(position, dim)[2]
                                            - RoiBounds(position, dim)[1]) :
                        roi' = region
                  /\ estimate' = estimate
                  /\ rpc' = "scan"
    /\ scan_i' = 0
    /\ candidates' = <<>>
    /\ UNCHANGED notRuler

\* one iteration of "for i in range(ANALYSIS_SCANLINE_COUNT)"
ScanLine ==
    /\ rpc = "scan"
    /\ scan_i < ANALYSIS_SCANLINE_COUNT
    /\ candidates' = candidates
          \o CandidatesOnScanline(roi[ScanlineCoordinate(Len(roi), scan_i) + 1], scan_i)
    /\ scan_i' = scan_i + 1
    /\ UNCHANGED <<rpc, ruler_position, image_dim, roi, estimate>>
    /\ UNCHANGED notRuler

\* the checks after the loop and the return
EstimateScale ==
    /\ rpc = "scan"
    /\ scan_i = ANALYSIS_SCANLINE_COUNT
    /\ estimate' =
          IF candidates = <<>> THEN CalibrationFailure
          ELSE IF TooSmall(MedianNum(candidates), MedianDen) THEN CalibrationFailure
          ELSE [status |-> "ok", num |-> MedianNum(candidates), den |-> MedianDen]
    /\ rpc' = "done"
    /\ UNCHANGED <<ruler_position, image_dim, roi, scan_i, candidates>>
    /\ UNCHANGED notRuler

Runners == {"gui", "executor"}

NoLog == [ruler |-> "none", calib |-> "none", art |-> "none", ruler_part |-> "none",
          template |-> "none", view_extracted |-> FALSE, view_failed |-> FALSE,
          stitch |-> "none", saved_tiff |-> FALSE, saved_jpg |-> FALSE,
          meta_tiff |-> FALSE, meta_jpg |-> FALSE,
          ok_inc |-> 0, err_inc |-> 0]

Folders == 1..num_folders

\* log with field f of the current subfolder set to v
Logged(f, v) == [log EXCEPT ![idx] = [@ EXCEPT ![f] = v]]

(***************************************************************************)
(* Where control goes when a pipeline step of the current subfolder raises.*)
(* gui runner: everything from line 202 on sits in one try whose handler   *)
(* is line 391, except the digital ruler resize, which has its own handler *)
(* (lines 312-322) that only prints.  executor: every step re-raises as    *)
(* RuntimeError up to the handler at executor.py line 111.                 *)
(***************************************************************************)
C1_Mut_ExceptionTarget(r, step) ==
    IF step = "other_view" THEN "stitch"
    ELSE IF r = "gui" /\ step = "template" THEN "other_views" ELSE "except"

C2_Mut_ExceptionTarget(r, step) ==
    IF r = "gui" /\ step = "template" THEN "other_views" ELSE "report"

ExceptionTarget(r, step) ==
    IF r = "gui" /\ step = "template" THEN "other_views" ELSE "except"

(***************************************************************************)
(* How the caller of process_tablet_subfolder classifies a normal return.  *)
(* gui runner line 390: total_ok += 1 whatever was returned.               *)
(* executor: StitchCoordinator returns                                     *)
(*   result is not None and isinstance(result, dict)                       *)
(* and the function returns a tuple (tiff_path, jpg_path), never a dict.   *)
(***************************************************************************)
StitchCountsAsSuccess(r, ret) ==
    IF r = "gui" THEN TRUE ELSE FALSE

(***************************************************************************)
(* The subfolder the loop goes to after the current one was tallied: the   *)
(* for loop simply advances (continue / end of body).                      *)
(***************************************************************************)
NextIndex(i) == i + 1

(***************************************************************************)
(* The error counter after a subfolder without ruler image was skipped.    *)
(***************************************************************************)
C4_Mut_ErrAfterSkip(e) == e

ErrAfterSkip(e) == e + 1

C22_Mut_StopRequested(r, app, running) == FALSE

\* "if app_instance and not app_instance.processing_running" at the head of
\* the loop body; the executor has no such check
StopRequested(r, app, running) == r = "gui" /\ app /\ ~running

WfInit ==
    /\ runner \in Runners
    /\ app_instance \in BOOLEAN
    /\ (runner = "executor" => app_instance = FALSE)
    /\ processing_running = TRUE
    /\ wpc = "start"
    /\ num_folders = 0
    /\ idx = 0
    /\ views_left = 0
    /\ stitch_ret = <<FALSE, FALSE>>
    /\ total_ok = 0
    /\ total_err = 0
    /\ finished_calls = 0
    /\ stopped_by_user = FALSE
    /\ attempted = <<>>
    /\ cancelled_at = "none"
    /\ log = [k \in 1..MaxFolders |-> NoLog]
    /\ LayoutIdle
    /\ RulerIdle
    /\ BlendIdle
    /\ PasteIdle
    /\ CropIdle
    /\ UndoIdle
    /\ RefactorIdle
    /\ OutputIdle
    /\ CallbacksIdle
    /\ SelectIdle

\* The front-end thread clears the flag while the worker runs.
Cancel ==
    /\ app_instance
    /\ processing_running
    /\ wpc \notin {"start", "done"}
    /\ processing_running' = FALSE
    /\ cancelled_at' = wpc
    /\ UNCHANGED <<runner, app_instance, wpc, num_folders, idx, views_left,
                   stitch_ret, total_ok, total_err, finished_calls,
                   stopped_by_user, attempted, log>>
    /\ UNCHANGED notWf

\* File organization: raises, returns no subfolder, or returns n subfolders.
OrganizeFiles ==
    /\ wpc = "start"
    /\ \E raised \in BOOLEAN, n \in 0..MaxFolders :
         IF raised \/ n = 0
         THEN /\ num_folders' = 0
              /\ finished_calls' = finished_calls + 1
              /\ wpc' = "done"
              /\ idx' = idx
         ELSE /\ num_folders' = n
              /\ finished_calls' = finished_calls
              /\ wpc' = "loop_head"
              /\ idx' = 1
    /\ UNCHANGED <<cancelled_at, runner, app_instance, processing_running, views_left,
                   stitch_ret, total_ok, total_err, stopped_by_user,
                   attempted, log>>
    /\ UNCHANGED notWf

\* Head of the for loop over processed_subfolders.
LoopHead ==
    /\ wpc = "loop_head"
    /\ IF idx > num_folders
       THEN /\ wpc' = "report"
            /\ UNCHANGED <<finished_calls, stopped_by_user, attempted>>
       ELSE IF StopRequested(runner, app_instance, processing_running)
       THEN /\ wpc' = "done"
            /\ finished_calls' = finished_calls + 1
            /\ stopped_by_user' = TRUE
            /\ UNCHANGED attempted
       ELSE /\ wpc' = "find_ruler"
            /\ attempted' = Append(attempted, idx)
            /\ UNCHANGED <<finished_calls, stopped_by_user>>
    /\ UNCHANGED <<cancelled_at, runner, app_instance, processing_running, num_folders, idx,
                   views_left, stitch_ret, total_ok, total_err, log>>
    /\ UNCHANGED notWf

\* determine_ruler_image_for_scaling / _find_ruler_image
FindRuler ==
    /\ wpc = "find_ruler"
    /\ \E found \in BOOLEAN :
         IF found
         THEN /\ wpc' = "scale"
              /\ log' = Logged("ruler", "found")
              /\ UNCHANGED <<idx, total_err>>
         ELSE /\ total_err' = ErrAfterSkip(total_err)
              /\ log' = [log EXCEPT ![idx] =
                          [@ EXCEPT !.ruler = "missing",
                                    !.err_inc = @ + (total_err' - total_err)]]
              /\ idx' = NextIndex(idx)
              /\ wpc' = "loop_head"
    /\ UNCHANGED <<cancelled_at, runner, app_instance, processing_running, num_folders,
                   views_left, stitch_ret, total_ok, finished_calls,
                   stopped_by_user, attempted>>
    /\ UNCHANGED notWf

\* A pipeline step of the current subfolder with outcome ok or raise.
PipelineStep(here, field, next) ==
    /\ wpc = here
    /\ \E ok \in BOOLEAN :
         /\ log' = Logged(field, IF ok THEN "ok" ELSE "fail")
         /\ wpc' = IF ok THEN next ELSE ExceptionTarget(runner, here)
    /\ UNCHANGED <<cancelled_at, runner, app_instance, processing_running, num_folders, idx,
                   views_left, stitch_ret, total_ok, total_err, finished_calls,
                   stopped_by_user, attempted>>
    /\ UNCHANGED notWf

\* ruler_detector.estimate_pixels_per_centimeter_from_ruler (or the Iraq Museum detector)
Calibrate == PipelineStep("scale", "calib", "extract_art")

\* extract_and_save_center_object on the ruler image
ExtractArtifact == PipelineStep("extract_art", "art", "ruler_part")

\* isolate the physical ruler: a missing ruler contour is only a warning
IsolateRuler ==
    /\ wpc = "ruler_part"
    /\ \E outcome \in {"isolated", "not_isolated", "fail"} :
         /\ log' = Logged("ruler_part", IF outcome = "fail" THEN "fail" ELSE "ok")
         /\ wpc' = IF outcome = "fail"
                   THEN ExceptionTarget(runner, "ruler_part")
                   ELSE "template"
    /\ UNCHANGED <<cancelled_at, runner, app_instance, processing_running, num_folders, idx,
                   views_left, stitch_ret, total_ok, total_err, finished_calls,
                   stopped_by_user, attempted>>
    /\ UNCHANGED notWf

\* choose and resize the digital ruler template
RulerTemplate == PipelineStep("template", "template", "other_views")

\* other_views_to_process_list is built
ListOtherViews ==
    /\ wpc = "other_views"
    /\ \E m \in 0..MaxOtherViews :
         /\ views_left' = m
         /\ wpc' = "other_view"
    /\ UNCHANGED <<cancelled_at, runner, app_instance, processing_running, num_folders, idx,
                   stitch_ret, total_ok, total_err, finished_calls,
                   stopped_by_user, attempted, log>>
    /\ UNCHANGED notWf

\* one iteration of the loop over the other views, or its end
ExtractOtherView ==
    /\ wpc = "other_view"
    /\ IF views_left = 0
       THEN /\ wpc' = "stitch"
            /\ UNCHANGED <<views_left, log>>
       ELSE \E ok \in BOOLEAN :
              IF ok
              THEN /\ views_left' = views_left - 1
                   /\ log' = Logged("view_extracted", TRUE)
                   /\ wpc' = "other_view"
              ELSE /\ views_left' = 0
                   /\ log' = Logged("view_failed", TRUE)
                   /\ wpc' = ExceptionTarget(runner, "other_view")
    /\ UNCHANGED <<cancelled_at, runner, app_instance, processing_running, num_folders, idx,
                   stitch_ret, total_ok, total_err, finished_calls,
                   stopped_by_user, attempted>>
    /\ UNCHANGED notWf

\* process_tablet_subfolder up to the final crop: load, resize, layout,
\* compose, logo, crop.  Any of them may raise (this includes a call that
\* cannot be bound to lib/stitch_images.process_tablet_subfolder).
Stitch ==
    /\ wpc = "stitch"
    /\ \E ok \in BOOLEAN :
         /\ log' = Logged("stitch", IF ok THEN "composed" ELSE "raised")
         /\ wpc' = IF ok THEN "save_tiff" ELSE ExceptionTarget(runner, "stitch")
    /\ UNCHANGED <<cancelled_at, runner, app_instance, processing_running, num_folders, idx,
                   views_left, stitch_ret, total_ok, total_err, finished_calls,
                   stopped_by_user, attempted>>
    /\ UNCHANGED notWf

\* save_stitched_output: the invalid-image check, then save_tiff_output
SaveTiff ==
    /\ wpc = "save_tiff"
    /\ \E outcome \in {"invalid", "saved", "failed"} :
         IF outcome = "invalid"
         THEN /\ log' = Logged("stitch", "raised")
              /\ wpc' = ExceptionTarget(runner, "stitch")
         ELSE /\ log' = Logged("saved_tiff", outcome = "saved")
              /\ wpc' = "save_jpg"
    /\ UNCHANGED <<cancelled_at, runner, app_instance, processing_running, num_folders, idx,
                   views_left, stitch_ret, total_ok, total_err, finished_calls,
                   stopped_by_user, attempted>>
    /\ UNCHANGED notWf

\* save_jpg_output
SaveJpg ==
    /\ wpc = "save_jpg"
    /\ \E saved \in BOOLEAN :
         log' = Logged("saved_jpg", saved)
    /\ wpc' = "metadata"
    /\ UNCHANGED <<cancelled_at, runner, app_instance, processing_running, num_folders, idx,
                   views_left, stitch_ret, total_ok, total_err, finished_calls,
                   stopped_by_user, attempted>>
    /\ UNCHANGED notWf

\* apply_metadata for each file whose save succeeded, then the return of
\* save_stitched_output and of process_tablet_subfolder
ApplyMetadata ==
    /\ wpc = "metadata"
    /\ log' = [log EXCEPT ![idx] = [@ EXCEPT !.meta_tiff = log[idx].saved_tiff,
                                             !.meta_jpg = log[idx].saved_jpg,
                                             !.stitch = "returned"]]
    /\ stitch_ret' = <<log[idx].saved_tiff, log[idx].saved_jpg>>
    /\ wpc' = "returned"
    /\ UNCHANGED <<cancelled_at, runner, app_instance, processing_running, num_folders, idx,
                   views_left, total_ok, total_err, finished_calls,
                   stopped_by_user, attempted>>
    /\ UNCHANGED notWf

\* the caller counts the subfolder after a normal return
TallyReturn ==
    /\ wpc = "returned"
    /\ IF StitchCountsAsSuccess(runner, stitch_ret)
       THEN /\ total_ok' = total_ok + 1
            /\ log' = Logged("ok_inc", log[idx].ok_inc + 1)
            /\ UNCHANGED total_err
       ELSE /\ total_err' = total_err + 1
            /\ log' = Logged("err_inc", log[idx].err_inc + 1)
            /\ UNCHANGED total_ok
    /\ idx' = NextIndex(idx)
    /\ wpc' = "loop_head"
    /\ UNCHANGED <<cancelled_at, runner, app_instance, processing_running, num_folders,
                   views_left, stitch_ret, finished_calls, stopped_by_user,
                   attempted>>
    /\ UNCHANGED notWf

\* the except clause of the subfolder's try
TallyException ==
    /\ wpc = "except"
    /\ total_err' = total_err + 1
    /\ log' = Logged("err_inc", log[idx].err_inc + 1)
    /\ idx' = NextIndex(idx)
    /\ wpc' = "loop_head"
    /\ UNCHANGED <<cancelled_at, runner, app_instance, processing_running, num_folders,
                   views_left, stitch_ret, total_ok, finished_calls,
                   stopped_by_user, attempted>>
    /\ UNCHANGED notWf

\* the final report: progress_callback(100); finished_callback()
Report ==
    /\ wpc = "report"
    /\ finished_calls' = finished_calls + 1
    /\ wpc' = "done"
    /\ UNCHANGED <<cancelled_at, runner, app_instance, processing_running, num_folders, idx,
                   views_left, stitch_ret, total_ok, total_err,
                   stopped_by_user, attempted, log>>
    /\ UNCHANGED notWf

WfNext ==
    \/ Cancel
    \/ OrganizeFiles
    \/ LoopHead
    \/ FindRuler
    \/ Calibrate
    \/ ExtractArtifact
    \/ IsolateRuler
    \/ RulerTemplate
    \/ ListOtherViews
    \/ ExtractOtherView
    \/ Stitch
    \/ SaveTiff
    \/ SaveJpg
    \/ ApplyMetadata
    \/ TallyReturn
    \/ TallyException
    \/ Report

Spec == WfInit /\ [][WfNext]_vars

(***************************************************************************)
(* Claims about the workflow.                                              *)
(***************************************************************************)
Worker ==
    \/ OrganizeFiles \/ LoopHead \/ FindRuler \/ Calibrate \/ ExtractArtifact
    \/ IsolateRuler \/ RulerTemplate \/ ListOtherViews \/ ExtractOtherView
    \/ Stitch \/ SaveTiff \/ SaveJpg \/ ApplyMetadata \/ TallyReturn
    \/ TallyException \/ Report

\* the stitch, a composite save or a metadata write was executed for subfolder k
StitchTouched(k) ==
    \/ log[k].stitch # "none"
    \/ log[k].saved_tiff \/ log[k].saved_jpg
    \/ log[k].meta_tiff \/ log[k].meta_jpg

\* the worker stands at the stitch, a save or the metadata step of subfolder k
AtStitch(k) ==
    idx = k /\ wpc \in {"stitch", "save_tiff", "save_jpg", "metadata", "returned"}

\* C1: within one subfolder the stitch, the composite saves and the metadata
\* step are executed only if the scale calibration and the extraction of
\* every view succeeded; after a calibration or extraction failure none of
\* them is executed for that subfolder.
C1_StitchOnlyAfterSuccess ==
    \A k \in 1..MaxFolders :
        (StitchTouched(k) \/ AtStitch(k)) =>
            /\ log[k].calib = "ok"
            /\ log[k].art = "ok"
            /\ ~log[k].view_failed
            /\ views_left = 0 \/ idx # k

\* a finished run in which one subfolder failed in calibration, another in the
\* extraction of a view, and neither was stitched
C1_Witness ==
    /\ wpc = "done"
    /\ \E k \in Folders : log[k].calib = "fail" /\ ~StitchTouched(k)
    /\ \E k \in Folders : log[k].view_failed /\ log[k].view_extracted /\ ~StitchTouched(k)

\* C2: in a run that is not cancelled a failure in one subfolder never keeps
\* the remaining ones from being processed: the subfolders are attempted in
\* order, the worker is never stuck, and when the run has finished every
\* subfolder returned by file organization was attempted and tallied.
C2_BatchNeverHalts ==
    /\ \A p \in 1..Len(attempted) : attempted[p] = p
    /\ (wpc # "done") => ENABLED Worker
    /\ (wpc = "done" /\ ~stopped_by_user) =>
          /\ Len(attempted) = num_folders
          /\ finished_calls = 1
          /\ \A k \in Folders : log[k].ok_inc + log[k].err_inc > 0

\* a finished, uncancelled run whose first subfolder failed in the pipeline
\* and whose last subfolder was nevertheless processed up to its composite
C2_Witness ==
    /\ wpc = "done" /\ ~stopped_by_user /\ num_folders >= 2
    /\ log[1].err_inc > 0 /\ log[1].ruler = "found"
    /\ log[1].stitch \in {"none", "raised"}
    /\ log[num_folders].stitch = "returned"

C4_TallyAddsUp ==
    (wpc = "done" /\ ~stopped_by_user) =>
        /\ total_ok + total_err = num_folders
        /\ \A k \in Folders : log[k].ok_inc + log[k].err_inc = 1
        /\ total_ok = Cardinality({k \in Folders : log[k].ok_inc = 1})
        /\ total_err = Cardinality({k \in Folders : log[k].err_inc = 1})

\* a finished, uncancelled run with a skipped subfolder, a failed one and a
\* successful one
C4_Witness ==
    /\ wpc = "done" /\ ~stopped_by_user /\ num_folders >= 2
    /\ \E k \in Folders : log[k].ruler = "missing"
    /\ \E k \in Folders : log[k].ruler = "found"
    /\ total_ok + total_err = num_folders

(***************************************************************************)
(* The stitching of one tablet on its own: load, resize, lay out.          *)
(***************************************************************************)
\* the positions of the worker inside the pipeline of one subfolder
InsidePipeline ==
    {"find_ruler", "scale", "extract_art", "ruler_part", "template", "other_views",
     "other_view", "stitch", "save_tiff", "save_jpg", "metadata", "returned", "except"}

\* subfolder k was counted, as success or as error, exactly once
Tallied(k) == log[k].ok_inc + log[k].err_inc = 1

\* C22: cancellation acts between subfolders only: once the flag is cleared no
\* further subfolder is started, while the worker inside the pipeline of a
\* subfolder goes on from step to step until that subfolder is counted, and
\* the run ends only from the head of the loop.
C22_CoarseCancellation ==
    [][/\ ~processing_running => attempted' = attempted
       /\ wpc \in InsidePipeline =>
              /\ wpc' \in InsidePipeline \cup {"loop_head"}
              /\ wpc' = "loop_head" => log'[idx].ok_inc + log'[idx].err_inc = 1
       /\ (wpc' = "done" /\ wpc # "done") =>
              \A p \in 1..Len(attempted) : Tallied(attempted[p])']_vars

\* the flag was cleared during the calibration of the first of two subfolders:
\* that subfolder was stitched, saved and counted, the second never started
C22_Witness ==
    /\ wpc = "done"
    /\ stopped_by_user
    /\ cancelled_at = "scale"
    /\ num_folders = 2
    /\ attempted = <<1>>
    /\ log[1].saved_tiff /\ log[1].meta_tiff
    /\ log[1].ok_inc = 1
    /\ log[2] = NoLog

WfIdle ==
    /\ runner = "gui" /\ app_instance = FALSE /\ processing_running = TRUE
    /\ wpc = "start" /\ num_folders = 0 /\ idx = 0 /\ views_left = 0
    /\ stitch_ret = <<FALSE, FALSE>> /\ total_ok = 0 /\ total_err = 0
    /\ finished_calls = 0 /\ stopped_by_user = FALSE /\ attempted = <<>>
    /\ cancelled_at = "none"
    /\ log = [k \in 1..MaxFolders |-> NoLog]

LayoutInit == WfIdle /\ LayoutIdle /\ RulerIdle /\ BlendIdle /\ PasteIdle /\ CropIdle /\ SelectIdle /\ CallbacksIdle /\ OutputIdle /\ RefactorIdle /\ UndoIdle

LayoutNext == LoadImages \/ ResizeViews \/ CalculateLayout \/ ComposeCanvas

LayoutSpec == LayoutInit /\ [][LayoutNext]_vars

\* the slots the plan positions and for which there is a single raster to paste
PlacedRasters ==
    {k \in DOMAIN plan.coords :
        /\ k \in DOMAIN plan.images
        /\ plan.images[k].kind = "img"
        /\ ValidArray(plan.images[k].imgs[1])}

\* C5: whenever layout succeeds, every placed non-sequence slot (left_rotated
\* and right_rotated included) lies inside the canvas: 0 <= x, 0 <= y,
\* x + raster width <= canvas width and y + raster height <= canvas height.
C5_PlacedInsideCanvas ==
    lpc = "planned" =>
        \A k \in PlacedRasters :
            LET x == plan.coords[k][1]
                y == plan.coords[k][2]
                r == plan.images[k].imgs[1]
            IN  /\ 0 <= x /\ 0 <= y
                /\ x + r.w <= plan.canvas_w
                /\ y + r.h <= plan.canvas_h

ObverseUsable(d) ==
    /\ get_image_dimension(d["obverse"], 0, 0) > 0
    /\ get_image_dimension(d["obverse"], 1, 0) > 0

\* C6: a plan is returned only when the reference dimension comes from obverse
\* or from a slot the caller named; with obverse absent or zero-sized and no
\* substitute declared by the caller, layout fails and yields no canvas size
\* and no positions.
C6_ReferenceDeclared ==
    /\ lpc = "planned" =>
          (plan.ref_key = "obverse" \/ plan.ref_key \in custom_layout.names)
    /\ (lpc \in {"planned", "failed"} /\ ~ObverseUsable(resized_images)
            /\ ~Truthy(custom_layout)) =>
          (lpc = "failed" /\ ~plan.ok /\ plan.canvas_w = 0 /\ plan.canvas_h = 0
             /\ DOMAIN plan.coords = {})

Resized == lpc \in {"resized", "planned", "failed"}
ReferenceRaster == ObverseReference(loaded_images["obverse"])
HeightMatched == {"left", "right"}
WidthMatched == {"top", "bottom", "reverse"}
Rasters(slot) == {slot.imgs[i] : i \in 1..Len(slot.imgs)}

\* C9 as stated: after ViewResizer ran on a ViewSet with a valid obverse, every
\* present left and right raster (sequence elements included) has exactly the
\* obverse height, and every present top, bottom and reverse raster has
\* exactly the obverse width.
C9_ResizedExactly ==
    (Resized /\ ValidArray(ReferenceRaster)) =>
        /\ \A k \in HeightMatched : \A r \in Rasters(resized_images[k]) :
              r.h = ReferenceRaster.h
        /\ \A k \in WidthMatched : \A r \in Rasters(resized_images[k]) :
              r.w = ReferenceRaster.w

\* C9: after ViewResizer ran on a ViewSet with a valid obverse, every present
\* left and right raster has the obverse height, and every present top, bottom
\* and reverse raster has the obverse width, unless its own dimension was
\* already within one part in a thousand of it, in which case it is untouched.
C9_ResizedWithinTolerance ==
    (Resized /\ ValidArray(ReferenceRaster)) =>
        /\ \A k \in HeightMatched : \A r \in Rasters(resized_images[k]) :
              \/ r.h = ReferenceRaster.h
              \/ /\ 1000 * Abs(ReferenceRaster.h - r.h) <= r.h
                 /\ r \in Rasters(loaded_images[k])
        /\ \A k \in WidthMatched : \A r \in Rasters(resized_images[k]) :
              \/ r.w = ReferenceRaster.w
              \/ /\ 1000 * Abs(ReferenceRaster.w - r.w) <= r.w
                 /\ r \in Rasters(loaded_images[k])

C9_Witness ==
    /\ lpc = "resized"
    /\ loaded_images["obverse"] = Img(1000, 600)
    /\ loaded_images["left"] = Img(1001, 300) /\ resized_images["left"] = Img(1001, 300)
    /\ loaded_images["right"] = Img(150, 75) /\ resized_images["right"] = Img(1000, 500)
    /\ loaded_images["reverse"] = Img(400, 300)
    /\ resized_images["reverse"] = Img(800, 600)

Placed(k) == k \in DOMAIN plan.coords
Width(k) == ViewDimension(k, resized_images[k], 1, LAYOUT_BLEND_OVERLAP_PX)
Height(k) == ViewDimension(k, resized_images[k], 0, LAYOUT_BLEND_OVERLAP_PX)
Row1 == {k \in {"left", "obverse", "right"} : Placed(k)}
Row1Span ==
    (IF "left" \in Row1 THEN Width("left") ELSE 0)
    + (IF "obverse" \in Row1 THEN Width("obverse") ELSE 0)
    + (IF "right" \in Row1 THEN Width("right") ELSE 0)
    + (IF Row1 = {} THEN 0 ELSE (Cardinality(Row1) - 1) * STITCH_VIEW_GAP_PX)
ReverseRowSpan ==
    Width("reverse")
    + (IF Placed("left_rotated") THEN Width("left") + STITCH_VIEW_GAP_PX ELSE 0)
    + (IF Placed("right_rotated") THEN Width("right") + STITCH_VIEW_GAP_PX ELSE 0)
RowSpans ==
    {Row1Span}
    \cup (IF Placed("reverse") THEN {ReverseRowSpan} ELSE {})
    \cup {Width(k) : k \in {j \in {"bottom", "top", "ruler"} : Placed(j)}}
StackedExtent(k) == IF Placed(k) THEN STITCH_VIEW_GAP_PX + Height(k) ELSE 0
VerticalExtent ==
    (IF Placed("obverse") THEN Height("obverse") ELSE 0)
    + StackedExtent("bottom") + StackedExtent("reverse") + StackedExtent("top")
    + (IF Placed("ruler") THEN STITCH_RULER_PADDING_PX + Height("ruler") ELSE 0)
OnlyObverseAndRuler ==
    /\ Placed("obverse") /\ Placed("ruler")
    /\ \A k \in Keys \ {"obverse", "ruler"} : ~Present(resized_images, k)

\* C10 as stated: canvas width is the widest placed row's span plus twice the
\* border and canvas height is the sum of the placed vertical extents plus
\* twice the border; with only obverse and ruler the canvas is exactly
\* (obverse_width + 2 border) x (obverse_height + ruler_padding + ruler_height
\* + 2 border).
C10_CanvasSize ==
    lpc = "planned" =>
        /\ plan.canvas_w = MaxOf(RowSpans) + 2 * CANVAS_MARGIN_PX
        /\ plan.canvas_h = VerticalExtent + 2 * CANVAS_MARGIN_PX
        /\ OnlyObverseAndRuler =>
              /\ plan.canvas_w = Width("obverse") + 2 * CANVAS_MARGIN_PX
              /\ plan.canvas_h = Height("obverse") + STITCH_RULER_PADDING_PX
                                  + Height("ruler") + 2 * CANVAS_MARGIN_PX

\* C10: when the reference is the obverse, canvas width is the widest placed
\* row's span plus twice the border and canvas height is the sum of the placed
\* vertical extents plus twice the border; with only obverse and ruler the
\* canvas is exactly (max(obverse_width, ruler_width) + 2 border) x
\* (obverse_height + ruler_padding + ruler_height + 2 border).
C10_CanvasSizeWithRulerWidth ==
    (lpc = "planned" /\ plan.ref_key = "obverse") =>
        /\ plan.canvas_w = MaxOf(RowSpans) + 2 * CANVAS_MARGIN_PX
        /\ plan.canvas_h = VerticalExtent + 2 * CANVAS_MARGIN_PX
        /\ OnlyObverseAndRuler =>
              /\ plan.canvas_w = MaxOf({Width("obverse"), Width("ruler")})
                                  + 2 * CANVAS_MARGIN_PX
              /\ plan.canvas_h = Height("obverse") + STITCH_RULER_PADDING_PX
                                  + Height("ruler") + 2 * CANVAS_MARGIN_PX

C10_Witness ==
    /\ lpc = "planned" /\ plan.ref_key = "obverse" /\ OnlyObverseAndRuler
    /\ Width("ruler") > Width("obverse")
    /\ plan.canvas_w = Width("ruler") + 2 * CANVAS_MARGIN_PX
    /\ plan.canvas_h = Height("obverse") + STITCH_RULER_PADDING_PX
                        + Height("ruler") + 2 * CANVAS_MARGIN_PX

PosX(k) == plan.coords[k][1]
PosY(k) == plan.coords[k][2]
FromObverse == lpc = "planned" /\ plan.ref_key = "obverse" /\ Placed("obverse")
LeftmostOfRow1 == IF Placed("left") THEN "left" ELSE "obverse"
RightmostOfRow1 == IF Placed("right") THEN "right" ELSE "obverse"
FreeLeftOfRow1 == PosX(LeftmostOfRow1)
FreeRightOfRow1 == plan.canvas_w - (PosX(RightmostOfRow1) + Width(RightmostOfRow1))

\* C11: the first row {left, obverse, right} is centred on the canvas as a
\* group for every combination of present and absent left and right: the free
\* space left of the leftmost present slot and the free space right of the
\* rightmost present slot differ by at most 1 px, adjacent present slots are
\* exactly one gap apart, and left and right share the top y of obverse.
C11_Row1Centered ==
    FromObverse =>
        /\ Abs(FreeLeftOfRow1 - FreeRightOfRow1) <= 1
        /\ Placed("left") =>
              /\ PosX("obverse") = PosX("left") + Width("left") + STITCH_VIEW_GAP_PX
              /\ PosY("left") = PosY("obverse")
        /\ Placed("right") =>
              /\ PosX("right") = PosX("obverse") + Width("obverse") + STITCH_VIEW_GAP_PX
              /\ PosY("right") = PosY("obverse")

\* twice the horizontal centre of a placed slot
TwiceCenterX(k) == 2 * PosX(k) + Width(k)

\* C12: each of bottom, reverse, top and ruler that is placed has its
\* horizontal centre at the horizontal centre of obverse, up to 1 px, whichever
\* of left and right are present.
C12_CenteredUnderObverse ==
    FromObverse =>
        \A k \in {"bottom", "reverse", "top", "ruler"} :
            Placed(k) => Abs(TwiceCenterX(k) - TwiceCenterX("obverse")) <= 2

StackOrder == <<"bottom", "reverse", "top">>
\* lower edge of the last slot placed among obverse and the first p stacked views
RECURSIVE BottomBefore(_)
BottomBefore(p) ==
    IF p = 0 THEN PosY("obverse") + Height("obverse")
    ELSE IF Placed(StackOrder[p]) THEN PosY(StackOrder[p]) + Height(StackOrder[p])
    ELSE BottomBefore(p - 1)

\* C13: bottom, reverse and top are placed below the first row in that order:
\* each present one is placed and starts exactly one gap below the lower edge
\* of the previously placed element (obverse for the first), and the ruler
\* starts exactly the ruler padding below the lower edge of the last placed
\* element.
C13_StackedInOrder ==
    FromObverse =>
        /\ \A p \in 1..Len(StackOrder) :
              /\ Placed(StackOrder[p]) <=> Present(resized_images, StackOrder[p])
              /\ Placed(StackOrder[p]) =>
                    PosY(StackOrder[p]) = BottomBefore(p - 1) + STITCH_VIEW_GAP_PX
        /\ Placed("ruler") <=> Present(resized_images, "ruler")
        /\ Placed("ruler") =>
              PosY("ruler") = BottomBefore(Len(StackOrder)) + STITCH_RULER_PADDING_PX

\* a plan without bottom in which reverse follows obverse, top follows reverse
\* and the ruler follows top
C13_Witness ==
    /\ FromObverse
    /\ ~Placed("bottom") /\ Placed("reverse") /\ Placed("top") /\ Placed("ruler")
    /\ PosY("reverse") = PosY("obverse") + Height("obverse") + STITCH_VIEW_GAP_PX
    /\ PosY("top") = PosY("reverse") + Height("reverse") + STITCH_VIEW_GAP_PX
    /\ PosY("ruler") = PosY("top") + Height("top") + STITCH_RULER_PADDING_PX

\* twice the vertical centre of a slot of height h placed at y
TwiceCenterY(y, h) == 2 * y + h

\* C14: whenever a left (right) slot exists, the plan holds a left_rotated
\* (right_rotated) entry with a raster of the view's shape and a position; the
\* entry lies beside reverse, on its left (right), without overlapping it, and
\* is vertically centred on reverse's vertical span up to 1 px.
C14_RotatedBesideReverse ==
    FromObverse =>
        \A k \in RotatedKeys :
            Present(resized_images, RotatedOf(k)) =>
                /\ k \in DOMAIN plan.images
                /\ plan.images[k] = resized_images[RotatedOf(k)]
                /\ Placed(k) /\ Placed("reverse")
                /\ IF k = "left_rotated"
                   THEN PosX(k) + Width("left") <= PosX("reverse")
                   ELSE PosX("reverse") + Width("reverse") <= PosX(k)
                /\ Abs(TwiceCenterY(PosY(k), Height(RotatedOf(k)))
                       - TwiceCenterY(PosY("reverse"), Height("reverse"))) <= 2

Composed == lpc \in {"composed", "compose_raised"}
RECURSIVE SumAlong(_, _)
SumAlong(imgs, axis) ==
    IF imgs = <<>> THEN 0 ELSE Shape(Head(imgs), axis) + SumAlong(Tail(imgs), axis)
MinAcross(imgs, axis) ==
    CHOOSE m \in {Shape(imgs[i], axis) : i \in 1..Len(imgs)} :
        \A i \in 1..Len(imgs) : m <= Shape(imgs[i], axis)

\* C15: for a slot holding a sequence the dimensions the layout uses are the
\* post-blend ones (along the blend axis the sum of the element lengths minus
\* the overlap for each of the n - 1 joints, across it the minimum over the
\* elements), and they are the dimensions of the segment the composer blends
\* for that slot in the same run.
C15_LayoutUsesBlendedDimensions ==
    Composed =>
        \A k \in SequenceSlots(plan) :
            LET imgs == plan.images[k].imgs
                axis == IF BlendAxis(k) = "vertical" THEN 0 ELSE 1
                used(a) == IF a = 0 THEN Height(k) ELSE Width(k)
            IN  /\ used(axis) = SumAlong(imgs, axis)
                                  - DEFAULT_BLEND_OVERLAP_PX * (Len(imgs) - 1)
                /\ used(1 - axis) = MinAcross(imgs, 1 - axis)
                /\ segments[k].status = "ok"
                /\ segments[k].h = Height(k)
                /\ segments[k].w = Width(k)

\* the pair of call p of the fold has an operand shorter along the blend axis
\* than the overlap width, and np.concatenate accepts the pair
ShortPair(p) ==
    /\ fold_overlap > 0
    /\ \/ Len(fold_calls[p].first.lines) < fold_overlap
       \/ Len(fold_calls[p].second.lines) < fold_overlap
    /\ fold_calls[p].first.across = fold_calls[p].second.across

\* C16: a pair with an operand shorter than the overlap width comes back as the
\* plain concatenation of the two operands in order: every line of both is
\* kept and the length along the blend axis is the sum of the two lengths.
C16_ShortPairConcatenated ==
    \A p \in 1..Len(fold_calls) :
        ShortPair(p) =>
            /\ fold_calls[p].out.status = "ok"
            /\ fold_calls[p].out.lines =
                   fold_calls[p].first.lines \o fold_calls[p].second.lines
            /\ Len(fold_calls[p].out.lines) =
                   Len(fold_calls[p].first.lines) + Len(fold_calls[p].second.lines)

\* the lines of a raster that hold content of element i of the list
LinesOf(segment, i) ==
    {q \in 1..Len(segment.lines) :
        \E t \in 1..Len(segment.lines[q]) : segment.lines[q][t].elem = i}

\* element i runs to the end of the raster, each of its lines once, in order
EndsWith(segment, i, along) ==
    LET n == Len(segment.lines)
    IN  /\ n >= along
        /\ LinesOf(segment, i) = (n - along + 1)..n
        /\ \A j \in 1..along :
               LET line == segment.lines[n - along + j]
               IN  /\ line[Len(line)] = [elem |-> i, at |-> j]
                   /\ \A t \in 1..(Len(line) - 1) : line[t].elem < i

\* C17: the fold goes through the list in listing order without reordering or
\* deduplication: call p blends the running result (the first element, then
\* the result of call p - 1) as first operand with element p + 1 of the list
\* as second operand, the content of element p + 1 lies after the content of
\* the elements before it, and a finished fold has made one call for every
\* listed element after the first, rasters listed twice included.
C17_FoldInListingOrder ==
    /\ \A p \in 1..Len(fold_calls) :
           /\ p + 1 <= Len(fold_images)
           /\ fold_calls[p].second = Content(fold_images, p + 1)
           /\ fold_calls[p].first =
                  IF p = 1 THEN Content(fold_images, 1) ELSE fold_calls[p - 1].out
           /\ fold_calls[p].out.status = "ok" =>
                  EndsWith(fold_calls[p].out, p + 1, fold_images[p + 1].along)
    /\ fpc = "done" =>
           /\ Len(fold_calls) = Len(fold_images) - 1
           /\ fold_segment =
                  IF fold_calls = <<>> THEN Content(fold_images, 1)
                  ELSE fold_calls[Len(fold_calls)].out

\* a finished fold of three elements, the first raster listed again as third,
\* in which both calls mixed lines of their operands
C17_Witness ==
    /\ fpc = "done"
    /\ Len(fold_images) = 3
    /\ fold_images[1] = fold_images[3]
    /\ fold_images[2] # fold_images[1]
    /\ Len(fold_calls) = 2
    /\ \A p \in 1..2 :
           \E q \in 1..Len(fold_calls[p].out.lines) : Len(fold_calls[p].out.lines[q]) > 1

\* every pixel of the raster has the background colour
Blank(image, bgr) ==
    \A r \in 1..image.h : \A c \in 1..image.w :
        /\ image.px[r][c].b = bgr.b
        /\ image.px[r][c].g = bgr.g
        /\ image.px[r][c].r = bgr.r

\* C18: a blank canvas (every pixel equal to the background) comes back from
\* the cropper unchanged: same width, same height, same pixels.
C18_BlankCanvasUnchanged ==
    (cpc # "idle" /\ Blank(crop_input, crop_bg)) => crop_once = crop_input

\* C19: cropping twice with the same margin and background colour gives
\* exactly the raster of cropping once.
C19_CropIdempotent ==
    cpc = "recropped" => crop_twice = crop_once

\* v lies between s and t
Between(v, s, t) == Min2(s, t) <= v /\ v <= Max2(s, t)

\* what the source pixel lying over a canvas pixel leaves there: its own
\* value, or, for a source with an alpha channel, a mix of its value and the
\* canvas pixel under it (all of it at alpha 255, none of it at alpha 0)
LeftBy(channels, source, before, after) ==
    IF channels = 4
    THEN /\ Between(after.b, source.b, before.b)
         /\ Between(after.g, source.g, before.g)
         /\ Between(after.r, source.r, before.r)
         /\ after.a = 255
         /\ source.a = 255 => after = Px(source.b, source.g, source.r, 255)
         /\ source.a = 0 => after = before
    ELSE after = Px(source.b, source.g, source.r, 255)

\* C20: pasting never resizes: whatever the position, the canvas keeps its
\* shape, every canvas pixel under the source receives the source pixel that
\* lies over it at the paste offset, every other canvas pixel is unchanged,
\* and a source entirely outside the canvas changes nothing.
C20_PasteWithoutResize ==
    ppc = "pasted" =>
        /\ canvas_after.h = canvas_before.h
        /\ canvas_after.w = canvas_before.w
        /\ canvas_after.channels = canvas_before.channels
        /\ \A r \in 1..canvas_before.h : \A c \in 1..canvas_before.w :
               IF /\ r - paste_at[2] \in 1..pasted_image.h
                  /\ c - paste_at[1] \in 1..pasted_image.w
               THEN LeftBy(pasted_image.channels,
                           pasted_image.px[r - paste_at[2]][c - paste_at[1]],
                           canvas_before.px[r][c], canvas_after.px[r][c])
               ELSE canvas_after.px[r][c] = canvas_before.px[r][c]

\* a source that sticks out of the canvas on the left and at the bottom has
\* changed the canvas
C20_Witness ==
    /\ ppc = "pasted"
    /\ paste_at[1] < 0
    /\ paste_at[2] > 0
    /\ paste_at[2] + pasted_image.h > canvas_before.h
    /\ pasted_image.channels = 3
    /\ canvas_after # canvas_before
    /\ canvas_after.px[canvas_before.h][1] # canvas_before.px[canvas_before.h][1]
    /\ canvas_after.px[1][1] = canvas_before.px[1][1]

\* four times the squared distance of the centroid of contour i from the image
\* center, times m00 squared (the centroid taken as the exact quotient)
ExactDistance(i) ==
    LET cnt == sel_contours[i]
    IN  (2 * cnt.m10 - sel_shape[2] * cnt.m00) * (2 * cnt.m10 - sel_shape[2] * cnt.m00)
        + (2 * cnt.m01 - sel_shape[1] * cnt.m00) * (2 * cnt.m01 - sel_shape[1] * cnt.m00)

\* the centroid of contour i is strictly closer to the image center than the
\* centroid of contour j
StrictlyCloser(i, j) ==
    ExactDistance(i) * sel_contours[j].m00 * sel_contours[j].m00
        < ExactDistance(j) * sel_contours[i].m00 * sel_contours[i].m00

\* C21: a returned contour passes the area filter, and no other contour that
\* passes it has its centroid strictly closer to the image center.
C21_ClosestCentroidSelected ==
    (spc = "selected" /\ best_contour # 0) =>
        /\ Qualifies(sel_contours[best_contour], sel_shape[1] * sel_shape[2], sel_fraction)
        /\ \A i \in 1..Len(sel_contours) :
               (/\ Qualifies(sel_contours[i], sel_shape[1] * sel_shape[2], sel_fraction)
                /\ sel_contours[i].m00 > 0)
               => ~StrictlyCloser(i, best_contour)

C29_ProgressMonotone ==
    /\ callbacks.nondecreasing
    /\ callbacks.in_range
    /\ (gpc = "done" /\ ~g_stopped) => callbacks.last = Percent(100, g_num_folders)

\* C23: the metadata embedder is called on a file only after that file was
\* saved: every metadata call on a file comes after a call that wrote the
\* file, and no writer touches the file afterwards.
C23_MetadataOnlyAfterSave ==
    \A p \in 1..Len(out_log) :
        out_log[p].op = "metadata" =>
            /\ Saved(SubSeq(out_log, 1, p - 1), out_log[p].file)
            /\ \A q \in (p + 1)..Len(out_log) :
                   ~(out_log[q].op = "write" /\ out_log[q].file = out_log[p].file)

\* the slots of the dictionary hold single rasters and the obverse is valid
SingleRasters(images_dict) ==
    /\ \A k \in DOMAIN images_dict : images_dict[k].kind # "seq"
    /\ HasSize(images_dict["obverse"])

\* C24: for the same resized views (single rasters, valid obverse), the same
\* gap and the same ruler padding, the refactored function returns the
\* canvas width and height and the coordinate of every slot that the
\* original returns.
C24_RefactoredEqualsOriginal ==
    (tpc = "done" /\ SingleRasters(t_images)) =>
        /\ old_result.ok /\ new_result.ok
        /\ new_result.canvas_w = old_result.canvas_w
        /\ new_result.canvas_h = old_result.canvas_h
        /\ \A k \in DOMAIN old_result.coords :
              k \in DOMAIN new_result.coords /\ new_result.coords[k] = old_result.coords[k]

\* C25: the layout calculation leaves the dictionary it was given as it
\* was: same keys, same rasters; the rotated entries are in the returned
\* dictionary only.
C25_InputNotMutated ==
    /\ tpc \in {"old_done", "done"} => old_arg = t_images
    /\ tpc = "done" => new_arg = t_images

\* the rectangle a result gives a slot that has a raster to paste
Rect(result, k) ==
    [x |-> result.coords[k][1], y |-> result.coords[k][2],
     w |-> result.images[k].imgs[1].w, h |-> result.images[k].imgs[1].h]
Positioned(result) ==
    {k \in DOMAIN result.coords :
        k \in DOMAIN result.images /\ result.images[k].kind = "img"}
Disjoint(a, b) ==
    \/ a.x + a.w <= b.x \/ b.x + b.w <= a.x
    \/ a.y + a.h <= b.y \/ b.y + b.h <= a.y
NoOverlap(result) ==
    result.ok =>
        \A j, k \in Positioned(result) :
            j # k => Disjoint(Rect(result, j), Rect(result, k))

\* C27: the rectangles of two distinct positioned slots never overlap, the
\* rotated side views included, in the original and in the refactored layout.
C27_SlotsDisjoint ==
    /\ tpc \in {"old_done", "done"} => NoOverlap(old_result)
    /\ tpc = "done" => NoOverlap(new_result)

\* C30: an undo restores the layout that existed before the action it
\* undoes, so that k undos in a row restore the layout before the k most
\* recent recorded actions; in particular an add, remove or move on a
\* sequence followed by undo leaves the sequence as it was.
C30_UndoRestoresLayout ==
    undone.type # "none" => result_layout = undone.expected

(***************************************************************************)
(* One call of the ruler scale estimate on its own.                        *)
(***************************************************************************)
RulerInit == WfIdle /\ LayoutIdle /\ RulerIdle /\ BlendIdle /\ PasteIdle /\ CropIdle /\ SelectIdle /\ CallbacksIdle /\ OutputIdle /\ RefactorIdle /\ UndoIdle

RulerNext == ReadRulerImage \/ ScanLine \/ EstimateScale

RulerSpec == RulerInit /\ [][RulerNext]_vars

CandidateSum(p) == SumSeq(candidates[p].widths)
\* num / den is a median of the candidates' means
IsMedian(num, den) ==
    LET n == Len(candidates)
        m == MIN_ALTERNATING_MARKS_FOR_SCALE_ESTIMATION
    IN  /\ 2 * Cardinality({p \in 1..n : CandidateSum(p) * den <= num * m}) >= n
        /\ 2 * Cardinality({p \in 1..n : CandidateSum(p) * den >= num * m}) >= n
        /\ \E p, q \in 1..n : 2 * num * m = (CandidateSum(p) + CandidateSum(q)) * den

\* C7: the estimate never returns a value <= 1 pixel/cm and never a value that
\* is not the median of accepted candidates; with no accepted candidate, or
\* with a median <= 1, the call ends in a calibration error.
C7_NeverTooSmallNorFabricated ==
    /\ estimate.status = "ok" =>
          /\ estimate.num > estimate.den
          /\ candidates # <<>>
          /\ IsMedian(estimate.num, estimate.den)
    /\ rpc = "done" =>
          /\ estimate.status \in {"ok", "error"}
          /\ candidates = <<>> => estimate.status = "error"
          /\ (\A p \in 1..Len(candidates) :
                 CandidateSum(p) <= MIN_ALTERNATING_MARKS_FOR_SCALE_ESTIMATION) =>
                estimate.status = "error"

C7_Witness ==
    /\ rpc = "done" /\ estimate.status = "error"
    /\ candidates # <<>>
    /\ \A p \in 1..Len(candidates) :
          CandidateSum(p) = MIN_ALTERNATING_MARKS_FOR_SCALE_ESTIMATION

\* the pixels of the scanline candidate c was read from
LineOf(c) == roi[ScanlineCoordinate(Len(roi), c.scanline) + 1]
\* first pixel (1-based) of the k-th mark of candidate c
MarkStart(c, k) == c.start_index + 1 + SumSeq(SubSeq(c.widths, 1, k - 1))
IsDark(v) == v < MARK_BINARIZATION_THRESHOLD
\* the widths of c are those of consecutive marks of one scanline, the first
\* dark and the following ones alternating, each mark a maximal run
ConsecutiveAlternatingMarks(c) ==
    LET line == LineOf(c)
        m == Len(c.widths)
        stop == MarkStart(c, m) + c.widths[m]
    IN  /\ m = MIN_ALTERNATING_MARKS_FOR_SCALE_ESTIMATION
        /\ stop - 1 <= Len(line)
        /\ \A k \in 1..m :
              /\ c.widths[k] > 0
              /\ \A p \in MarkStart(c, k)..(MarkStart(c, k) + c.widths[k] - 1) :
                    IsDark(line[p]) <=> (k % 2 = 1)
        /\ c.start_index > 0 => ~IsDark(line[c.start_index])
        /\ stop <= Len(line) => (IsDark(line[stop]) <=> (m % 2 = 0))
EachWidthAllowed(c) ==
    \A k \in 1..Len(c.widths) : WidthAllowed(c.widths[k], Len(LineOf(c)))

\* C8 as stated: every candidate comes from M consecutive alternating marks on
\* one scanline, each with a width inside [min, max] x the scan length, and
\* every pair of marks is within the tolerance fraction of each other.
C8_MarksMutuallySimilar ==
    \A p \in 1..Len(candidates) :
        LET c == candidates[p]
        IN  /\ ConsecutiveAlternatingMarks(c)
            /\ EachWidthAllowed(c)
            /\ \A a, b \in 1..Len(c.widths) :
                  100 * Abs(c.widths[a] - c.widths[b])
                      <= MARK_WIDTH_SIMILARITY_TOLERANCE_FRACTION * c.widths[b]

\* C8: every candidate comes from M consecutive alternating marks on one
\* scanline, the first of them dark, each with a width inside [min, max] x the
\* scan length, and every later mark differs from the first mark by at most
\* the tolerance fraction of the first mark's width.
C8_MarksSimilarToFirst ==
    \A p \in 1..Len(candidates) :
        LET c == candidates[p]
        IN  /\ ConsecutiveAlternatingMarks(c)
            /\ EachWidthAllowed(c)
            /\ \A b \in 2..Len(c.widths) :
                  100 * Abs(c.widths[b] - c.widths[1])
                      <= MARK_WIDTH_SIMILARITY_TOLERANCE_FRACTION * c.widths[1]

C8_Witness ==
    /\ rpc = "done" /\ estimate.status = "ok"
    /\ Len(roi) = 2
    /\ \E p \in 1..Len(candidates) :
          candidates[p].widths = <<3, 2>> /\ candidates[p].start_index = 0
    /\ \E p \in 1..Len(candidates) :
          candidates[p].widths = <<3, 2>> /\ candidates[p].start_index > 0

\* the marks extracted from one scanline of the region of interest
MarksOf(line) == extract_pixel_runs_from_scanline_data(line, MARK_BINARIZATION_THRESHOLD)

\* C26: the marks of a non-empty scanline are its maximal runs of constant
\* binary value and partition it: the first starts at 0, each next one
\* starts one pixel after the previous ends, the last ends at the last pixel,
\* adjacent marks have different colours, every mark has
\* width = end - start + 1 >= 1 and the colour of all its pixels, and the
\* widths sum to the length of the scanline.
C26_RunsPartitionScanline ==
    \A l \in 1..Len(roi) :
        LET line == roi[l]
            marks == MarksOf(line)
            widths == [m \in 1..Len(marks) |-> marks[m].width_pixels]
        IN  Len(line) > 0 =>
              /\ Len(marks) >= 1
              /\ marks[1].start_index = 0
              /\ marks[Len(marks)].end_index = Len(line) - 1
              /\ SumSeq(widths) = Len(line)
              /\ \A m \in 1..Len(marks) :
                    /\ marks[m].width_pixels = marks[m].end_index - marks[m].start_index + 1
                    /\ marks[m].width_pixels >= 1
                    /\ \A x \in marks[m].start_index..marks[m].end_index :
                          (marks[m].type = "black") = (line[x + 1] < MARK_BINARIZATION_THRESHOLD)
              /\ \A m \in 1..(Len(marks) - 1) :
                    /\ marks[m + 1].start_index = marks[m].end_index + 1
                    /\ marks[m + 1].type # marks[m].type

\* a region whose scanlines have three marks each has been scanned
C26_Witness ==
    /\ rpc = "done"
    /\ scan_i = ANALYSIS_SCANLINE_COUNT
    /\ Len(roi) >= 1
    /\ \A l \in 1..Len(roi) :
          /\ Len(MarksOf(roi[l])) = 3
          /\ MarksOf(roi[l])[2].width_pixels = 2
          /\ MarksOf(roi[l])[1].type = "white"

(***************************************************************************)
(* The fold of one sequence slot, one paste, and one pair of crops, each   *)
(* on its own.                                                             *)
(***************************************************************************)
AllIdle == WfIdle /\ LayoutIdle /\ RulerIdle /\ BlendIdle /\ PasteIdle /\ CropIdle /\ SelectIdle /\ CallbacksIdle /\ OutputIdle /\ RefactorIdle /\ UndoIdle

BlendNextStep == StartFold \/ BlendNext \/ FinishFold
BlendSpec == AllIdle /\ [][BlendNextStep]_vars

PasteSpec == AllIdle /\ [][PasteImage]_vars

CropNext == CropCanvas \/ CropAgain
CropSpec == AllIdle /\ [][CropNext]_vars

SelectSpec == AllIdle /\ [][SelectContour]_vars

OutputNext ==
    \/ BeginSave
    \/ SaveTiffFile
    \/ SaveJpgFile
    \/ EmbedTiffMetadata
    \/ EmbedJpgMetadata
OutputSpec == AllIdle /\ [][OutputNext]_vars

RefactorNext == ResizedForBoth \/ CallOriginal \/ CallRefactored
RefactorSpec == AllIdle /\ [][RefactorNext]_vars

UndoNext ==
    \/ ThumbnailClick
    \/ AssignImageToSlot
    \/ UnassignImageFromSlot
    \/ OpenSequenceDialog
    \/ CloseSequenceDialog
    \/ AddSelectedToSequence
    \/ RemoveFromSequence
    \/ MoveSequenceItem
    \/ UndoLastAction
UndoSpec == AllIdle /\ [][UndoNext]_vars

CallbackNext ==
    \/ RunStarts
    \/ FlagCleared
    \/ FilesOrganized
    \/ NextSubfolder
    \/ LayoutDialogReported
    \/ RulerLookedUp
    \/ SubStepReported
    \/ OtherViewsListed
    \/ OtherViewReported
    \/ SubfolderStitched
CallbackSpec == AllIdle /\ [][CallbackNext]_vars

====
